---------------------------- MODULE Spec2Model ----------------------------
(***************************************************************************)
(* Extraction orchestration engine of the earnings extractor:              *)
(*   - processBatch       (lib/concurrency.ts)   the batch coordinator      *)
(*   - Semaphore.run      (lib/llm-extractor.ts) the concurrency pools      *)
(*   - withRetry          (lib/llm-extractor.ts) the retry policy           *)
(*   - extractFromPDF     (lib/llm-extractor.ts) the two-tier strategy      *)
(*   - checkRateLimit     (lib/rate-limit.ts)    the admission limiter      *)
(*   - proxy              (proxy.ts)             the request gate           *)
(*   - validateExtraction (lib/validator.ts)     the record validator       *)
(*   - parseResponse      (lib/llm-extractor.ts) the reply parser           *)
(* Every component has its own specification over its own variables; the   *)
(* variables of the other components stay at their idle values.            *)
(***************************************************************************)
EXTENDS Integers, Sequences, FiniteSets, TLC

(***************************************************************************)
(* Bounds of the model.                                                    *)
(***************************************************************************)
MaxDocs == 3
MaxCallers == 4
MaxCapacity == 2
MaxRuns == 3
MaxLimit == 2
MaxChecks == 4
MaxValidations == 2
MaxFairCallers == 3

(***************************************************************************)
(* Program constants.                                                      *)
(***************************************************************************)
DEFAULT_CONCURRENCY == 3
RETRY_MAX_ATTEMPTS == 4
RETRY_BASE_DELAY_MS == 15000
RETRY_JITTER_MS == 5000
TEXT_CONCURRENCY == 3
VISION_CONCURRENCY == 1
POST_VISION_DELAY_MS == 5000
MIN_TEXT_CHARS == 100
MIN_FOUND_FIELDS == 2
WINDOW_MS_DEFAULT == 3600000
MAX_REQUESTS_DEFAULT == 20
CLEANUP_INTERVAL == 300000

Docs == {"a.pdf", "b.pdf"}

VARIABLES
    \* ---- processBatch / POST /api/extract
    items,          \* the input list (files)
    concurrency,    \* the worker bound
    results,        \* results: R[] = new Array(items.length)
    nextIndex,      \* let nextIndex = 0 (0-based, as in the code)
    wst,            \* per worker: "none" | "awaiting" | "done" | "rejected"
    widx,           \* per worker: const index (0-based) of the item in flight
    batch,          \* the promise of processBatch: "notcalled" | "pending" | "resolved" | "rejected"
    response,       \* the route's response
    completed,      \* history: 0-based indices in the order their fn settled
    thrown,         \* history: what each rejected fn threw, in the order of rejection
    \* ---- Semaphore
    capacity,       \* private concurrency
    running,        \* private running
    queue,          \* private queue (resolvers, by caller)
    jobs,           \* continuations of woken waiters, in the order they were scheduled
    cst,            \* per caller: "idle" | "waiting" | "woken" | "running" | "returned" | "threw"
    entered,        \* history: callers in the order they called run()
    started,        \* history: callers in the order their fn() was invoked
    releases,       \* history: number of finally blocks executed
    relAtEnter,     \* history: per caller, the value of releases when it called run()
    \* ---- withRetry
    maxAttempts,    \* parameter maxAttempts
    script,         \* the collaborator: outcome of its 1st, 2nd, ... invocation
    attempt,        \* loop variable attempt
    calls,          \* history: number of invocations of fn()
    rpc,            \* "ready" | "awaiting" | "delay" | "returned" | "threw"
    outcome,        \* what withRetry returned or threw
    delays,         \* history: the delays waited, in order
    \* ---- extractFromPDF (one Strategy run per document) and the two pools
    env,            \* what the collaborators may do: the texts, outcomes and replies
    run,            \* per Strategy run: its position, inputs and results
    pool,           \* per tier: the Semaphore instance (running, queue, scheduled continuations)
    \* ---- checkRateLimit and proxy
    WINDOW_MS,      \* parseInt(process.env.RATE_LIMIT_WINDOW_MS || "3600000", 10)
    MAX_REQUESTS,   \* parseInt(process.env.RATE_LIMIT_MAX || "20", 10)
    authEnabled,    \* isAuthEnabled(): APP_PASSWORD is set
    store,          \* Map<string, Entry>: key -> timestamps
    cleanupTimer,   \* the setInterval handle: armed, and when its callback is due
    now,            \* Date.now()
    log,            \* history: every checkRateLimit call with the proxy's answer
    last,           \* the proxy's answer to the latest request
    \* ---- validateExtraction
    vdata,          \* the ExtractedData record handed to the validator
    vres,           \* the ValidationResult of the latest call
    vcount,         \* history: number of validateExtraction calls on vdata
    \* ---- parseResponse
    reply,          \* the Anthropic.Message: its text block, if any
    parsed          \* what parseResponse returned or threw

batchVars == <<items, concurrency, results, nextIndex, wst, widx, batch, response, completed, thrown>>
poolVars  == <<capacity, running, queue, jobs, cst, entered, started, releases, relAtEnter>>
retryVars == <<maxAttempts, script, attempt, calls, rpc, outcome, delays>>
extractVars == <<env, run, pool>>
rateVars == <<WINDOW_MS, MAX_REQUESTS, authEnabled, store, cleanupTimer, now, log, last>>
validateVars == <<vdata, vres, vcount>>
parseVars == <<reply, parsed>>
vars == <<batchVars, poolVars, retryVars, extractVars, rateVars, validateVars, parseVars>>

exceptBatch == <<poolVars, retryVars, extractVars, rateVars, validateVars, parseVars>>
exceptPool == <<batchVars, retryVars, extractVars, rateVars, validateVars, parseVars>>
exceptRetry == <<batchVars, poolVars, extractVars, rateVars, validateVars, parseVars>>
exceptExtract == <<batchVars, poolVars, retryVars, rateVars, validateVars, parseVars>>
exceptRate == <<batchVars, poolVars, retryVars, extractVars, validateVars, parseVars>>
exceptValidate == <<batchVars, poolVars, retryVars, extractVars, rateVars, parseVars>>
exceptParse == <<batchVars, poolVars, retryVars, extractVars, rateVars, validateVars>>

Min(a, b) == IF a < b THEN a ELSE b

SeqsUpTo(S, n) == UNION {[1..k -> S] : k \in 0..n}

(***************************************************************************)
(* Idle values: a component that a specification does not exercise.        *)
(***************************************************************************)
NoResponse == [status |-> 0, body |-> <<>>, error |-> ""]

BatchIdle ==
    /\ items = <<>>
    /\ concurrency = DEFAULT_CONCURRENCY
    /\ results = <<>>
    /\ nextIndex = 0
    /\ wst = <<>>
    /\ widx = <<>>
    /\ batch = "notcalled"
    /\ response = NoResponse
    /\ completed = <<>>
    /\ thrown = <<>>

PoolIdle ==
    /\ capacity = 1
    /\ running = 0
    /\ queue = <<>>
    /\ jobs = <<>>
    /\ cst = <<>>
    /\ entered = <<>>
    /\ started = <<>>
    /\ releases = 0
    /\ relAtEnter = <<>>

RetryIdle ==
    /\ maxAttempts = RETRY_MAX_ATTEMPTS
    /\ script = <<>>
    /\ attempt = 1
    /\ calls = 0
    /\ rpc = "returned"
    /\ outcome = [kind |-> "none", status |-> 0]
    /\ delays = <<>>

ExtractIdle ==
    /\ env = <<>>
    /\ run = <<>>
    /\ pool = <<>>

NoTimer == [armed |-> FALSE, due |-> 0]

NoAnswer == [status |-> 0, checked |-> FALSE, next |-> FALSE]

RateIdle ==
    /\ WINDOW_MS = WINDOW_MS_DEFAULT
    /\ MAX_REQUESTS = MAX_REQUESTS_DEFAULT
    /\ authEnabled = FALSE
    /\ store = <<>>
    /\ cleanupTimer = NoTimer
    /\ now = 0
    /\ log = <<>>
    /\ last = NoAnswer

NoResult == [valid |-> FALSE, warnings |-> <<>>, errors |-> <<>>]

ValidateIdle ==
    /\ vdata = <<>>
    /\ vres = NoResult
    /\ vcount = 0

NotParsed == [kind |-> "none", members |-> {}]

ParseIdle ==
    /\ reply = <<>>
    /\ parsed = NotParsed

(***************************************************************************)
(* processBatch and the batch route.                                       *)
(***************************************************************************)
Hole == [set |-> FALSE, filename |-> "", data |-> ""]

\* route.ts 143-148: the value fn resolves to for a file
FnResult(file) == [set |-> TRUE, filename |-> file, data |-> file]

\* Array.from({ length: Math.min(concurrency, items.length) }, () => worker())
NumWorkersPerItem == Len(items)
NumWorkers == Min(concurrency, Len(items))

\* results[index] = await fn(items[index]): the slot the worker writes
ResultSlotLatest(w) == nextIndex - 1
ResultSlot(w) == widx[w]

BatchFresh ==
    /\ items \in SeqsUpTo(Docs, MaxDocs)
    /\ concurrency \in 1..DEFAULT_CONCURRENCY
    /\ results = <<>>
    /\ nextIndex = 0
    /\ wst = <<>>
    /\ widx = <<>>
    /\ batch = "notcalled"
    /\ response = NoResponse
    /\ completed = <<>>
    /\ thrown = <<>>

\* POST: if (files.length === 0) return 400
RouteNoFiles ==
    /\ batch = "notcalled"
    /\ response = NoResponse
    /\ Len(items) = 0
    /\ response' = [status |-> 400, body |-> <<>>, error |-> "No files uploaded"]
    /\ UNCHANGED <<items, concurrency, results, nextIndex, wst, widx, batch, completed, thrown>>

\* processBatch up to `await Promise.all(workers)`: every worker runs
\* synchronously to its first await, so worker k holds index k-1.
StartBatch ==
    /\ batch = "notcalled"
    /\ Len(items) > 0
    /\ results' = [i \in 1..Len(items) |-> Hole]
    /\ nextIndex' = NumWorkers
    /\ wst' = [w \in 1..NumWorkers |-> "awaiting"]
    /\ widx' = [w \in 1..NumWorkers |-> w - 1]
    /\ batch' = "pending"
    /\ UNCHANGED <<items, concurrency, response, completed, thrown>>

\* fn(items[index]) resolves: the worker stores the result and runs the loop
\* again up to its next await (or leaves the loop).
FnResolve(w) ==
    /\ w \in DOMAIN wst
    /\ wst[w] = "awaiting"
    /\ LET slot == ResultSlot(w)
           more == nextIndex < Len(items)
           wst2 == [wst EXCEPT ![w] = IF more THEN "awaiting" ELSE "done"]
       IN  /\ results' = [results EXCEPT ![slot + 1] = FnResult(items[widx[w] + 1])]
           /\ completed' = Append(completed, widx[w])
           /\ wst' = wst2
           /\ widx' = IF more THEN [widx EXCEPT ![w] = nextIndex] ELSE widx
           /\ nextIndex' = IF more THEN nextIndex + 1 ELSE nextIndex
           /\ batch' = IF batch = "pending" /\ \A v \in DOMAIN wst2 : wst2[v] = "done"
                       THEN "resolved" ELSE batch
    /\ UNCHANGED <<items, concurrency, response, thrown>>

\* what extractFromPDF may throw: the errors of throwAPIError for an
\* authentication failure (401) and for a service failure (500)
FnErrors ==
    {[kind |-> "invalid_api_key", status |-> 401], [kind |-> "api_error", status |-> 500]}

\* fn(items[index]) rejects: the await throws inside worker(), nothing
\* catches it, the worker's promise rejects and so does Promise.all.
FnReject(w, e) ==
    /\ w \in DOMAIN wst
    /\ wst[w] = "awaiting"
    /\ wst' = [wst EXCEPT ![w] = "rejected"]
    /\ completed' = Append(completed, widx[w])
    /\ thrown' = Append(thrown, [index |-> widx[w], error |-> e])
    /\ batch' = IF batch = "pending" THEN "rejected" ELSE batch
    /\ UNCHANGED <<items, concurrency, results, nextIndex, widx, response>>

\* route.ts 142-156: try { results = await processBatch(..); 200 } catch { 500 }
Respond ==
    /\ response = NoResponse
    /\ batch \in {"resolved", "rejected"}
    /\ response' = IF batch = "resolved"
                   THEN [status |-> 200, body |-> results, error |-> ""]
                   ELSE [status |-> 500, body |-> <<>>, error |-> "Extraction failed"]
    /\ UNCHANGED <<items, concurrency, results, nextIndex, wst, widx, batch, completed, thrown>>

NextBatch ==
    \/ RouteNoFiles /\ UNCHANGED exceptBatch
    \/ StartBatch /\ UNCHANGED exceptBatch
    \/ \E w \in 1..DEFAULT_CONCURRENCY : FnResolve(w) /\ UNCHANGED exceptBatch
    \/ \E w \in 1..DEFAULT_CONCURRENCY, e \in FnErrors : FnReject(w, e) /\ UNCHANGED exceptBatch
    \/ Respond /\ UNCHANGED exceptBatch

InitBatch == BatchFresh /\ PoolIdle /\ RetryIdle /\ ExtractIdle /\ RateIdle /\ ValidateIdle /\ ParseIdle

SpecBatch == InitBatch /\ [][NextBatch]_vars


(***************************************************************************)
(* Semaphore (the cheap pool and the expensive pool are two instances).    *)
(* run() has one suspension point before the call: a caller that finds the *)
(* pool full parks its resolver in the queue; the finally block of a       *)
(* holder calls the resolver, which only schedules the waiter's            *)
(* continuation; the continuation (this.running++, fn()) runs as a later   *)
(* job, after the jobs that were scheduled before it.  Such a job may be   *)
(* another caller calling run(), or another holder's finally block.  The   *)
(* variable jobs keeps the continuations in the order they were scheduled. *)
(***************************************************************************)
Callers == 1..MaxCallers

InCall == Cardinality({c \in DOMAIN cst : cst[c] = "running"})

\* if (this.running >= this.concurrency)
MustWaitOffByOne == running > capacity
MustWait == running >= capacity

\* finally { this.running--; ... }
RunningAfterLeak(ok) == IF ok THEN running - 1 ELSE running
RunningAfter(ok) == running - 1

PoolFresh ==
    /\ capacity \in 1..MaxCapacity
    /\ running = 0
    /\ queue = <<>>
    /\ jobs = <<>>
    /\ cst = [c \in Callers |-> "idle"]
    /\ entered = <<>>
    /\ started = <<>>
    /\ releases = 0
    /\ relAtEnter = [c \in Callers |-> [releases |-> 0, holders |-> 0]]

\* a caller calls run(fn): synchronously either parks in the queue or
\* increments running and invokes fn()
Enter(c) ==
    /\ cst[c] = "idle"
    /\ entered' = Append(entered, c)
    /\ relAtEnter' = [relAtEnter EXCEPT ![c] = [releases |-> releases, holders |-> InCall]]
    /\ IF MustWait
       THEN /\ queue' = Append(queue, c)
            /\ cst' = [cst EXCEPT ![c] = "waiting"]
            /\ UNCHANGED <<running, started>>
       ELSE /\ running' = running + 1
            /\ cst' = [cst EXCEPT ![c] = "running"]
            /\ started' = Append(started, c)
            /\ UNCHANGED queue
    /\ UNCHANGED <<capacity, jobs, releases>>

\* this.queue.shift(): what is left of a non-empty queue
QueueAfterShiftKept == queue
QueueAfterShift == Tail(queue)

\* fn() settles (ok: it resolved, ~ok: it rejected); the finally block runs
Finish(c, ok) ==
    /\ cst[c] = "running"
    /\ running' = RunningAfter(ok)
    /\ releases' = releases + 1
    /\ IF queue # <<>>
       THEN /\ queue' = QueueAfterShift
            /\ jobs' = Append(jobs, Head(queue))
            /\ cst' = [cst EXCEPT ![c] = IF ok THEN "returned" ELSE "threw",
                                  ![Head(queue)] = "woken"]
       ELSE /\ cst' = [cst EXCEPT ![c] = IF ok THEN "returned" ELSE "threw"]
            /\ UNCHANGED <<queue, jobs>>
    /\ UNCHANGED <<capacity, entered, started, relAtEnter>>

\* the continuation of a woken waiter runs: this.running++, fn()
Resume ==
    /\ jobs # <<>>
    /\ LET c == Head(jobs)
       IN  /\ running' = running + 1
           /\ cst' = [cst EXCEPT ![c] = "running"]
           /\ started' = Append(started, c)
    /\ jobs' = Tail(jobs)
    /\ UNCHANGED <<capacity, queue, entered, releases, relAtEnter>>

NextPool ==
    \/ \E c \in DOMAIN cst : Enter(c) /\ UNCHANGED exceptPool
    \/ \E c \in DOMAIN cst : Finish(c, TRUE) /\ UNCHANGED exceptPool
    \/ \E c \in DOMAIN cst : Finish(c, FALSE) /\ UNCHANGED exceptPool
    \/ Resume /\ UNCHANGED exceptPool

InitPool == BatchIdle /\ PoolFresh /\ RetryIdle /\ ExtractIdle /\ RateIdle /\ ValidateIdle /\ ParseIdle

SpecPool == InitPool /\ [][NextPool]_vars

(***************************************************************************)
(* withRetry, isRateLimit, throwAPIError.                                  *)
(* The collaborator fn is a script: the outcome of its n-th invocation.    *)
(* An outcome is a reply that parsed (ok), an Anthropic.APIError with a    *)
(* status, or another error (parseResponse threw inside fn).               *)
(***************************************************************************)
Reply == [ok |-> TRUE, api |-> FALSE, status |-> 200]
APIError(st) == [ok |-> FALSE, api |-> TRUE, status |-> st]
ParseFailure == [ok |-> FALSE, api |-> FALSE, status |-> 0]

Outcomes == {Reply, APIError(429), APIError(401), APIError(400), APIError(500), ParseFailure}

ScriptLen == RETRY_MAX_ATTEMPTS + 1

\* Math.random() * RETRY_JITTER_MS lies in [0, RETRY_JITTER_MS)
JitterSamples == {0, RETRY_JITTER_MS \div 2, RETRY_JITTER_MS - 1}

\* error instanceof Anthropic.APIError && error.status === 429
IsAnyError(error) == ~error.ok
isRateLimit(error) == error.api /\ error.status = 429

\* what throwAPIError throws for an error
throwAPIError(error) ==
    IF error.api
    THEN IF error.status = 401 THEN [kind |-> "invalid_api_key", status |-> 401]
         ELSE IF error.status = 400 THEN [kind |-> "request_error", status |-> 400]
         ELSE [kind |-> "api_error", status |-> error.status]
    ELSE [kind |-> "rethrown", status |-> error.status]

\* isRateLimit(error) && attempt < maxAttempts
CanRetryOffByOne(error) == isRateLimit(error) /\ attempt + 1 < maxAttempts
CanRetry(error) == isRateLimit(error) /\ attempt < maxAttempts

\* RETRY_BASE_DELAY_MS * attempt + Math.random() * RETRY_JITTER_MS
BackoffDelayExponential(a, jitter) == RETRY_BASE_DELAY_MS * 2 ^ (a - 1) + jitter
BackoffDelay(a, jitter) == RETRY_BASE_DELAY_MS * a + jitter

\* the loop condition attempt <= maxAttempts
LoopStopsEarly(a) == a < maxAttempts
LoopContinues(a) == a <= maxAttempts

RetryFresh ==
    /\ maxAttempts \in 1..RETRY_MAX_ATTEMPTS
    /\ script \in [1..ScriptLen -> Outcomes]
    /\ attempt = 1
    /\ calls = 0
    /\ rpc = "ready"
    /\ outcome = [kind |-> "none", status |-> 0]
    /\ delays = <<>>

\* try { return await fn(): fn is invoked
Invoke ==
    /\ rpc = "ready"
    /\ calls < ScriptLen
    /\ calls' = calls + 1
    /\ rpc' = "awaiting"
    /\ UNCHANGED <<maxAttempts, script, attempt, outcome, delays>>

\* fn() resolved: withRetry returns its value
AttemptReturns ==
    /\ rpc = "awaiting"
    /\ script[calls].ok
    /\ rpc' = "returned"
    /\ outcome' = [kind |-> "success", status |-> script[calls].status]
    /\ UNCHANGED <<maxAttempts, script, attempt, calls, delays>>

\* fn() rejected: the catch block either starts the backoff delay or throws
AttemptCaught ==
    /\ rpc = "awaiting"
    /\ ~script[calls].ok
    /\ IF CanRetry(script[calls])
       THEN /\ \E jitter \in JitterSamples :
                  delays' = Append(delays, BackoffDelay(attempt, jitter))
            /\ rpc' = "delay"
            /\ UNCHANGED outcome
       ELSE /\ rpc' = "threw"
            /\ outcome' = throwAPIError(script[calls])
            /\ UNCHANGED delays
    /\ UNCHANGED <<maxAttempts, script, attempt, calls>>

\* the timer of the backoff delay fires: attempt++ and the loop condition
DelayElapsed ==
    /\ rpc = "delay"
    /\ attempt' = attempt + 1
    /\ IF LoopContinues(attempt + 1)
       THEN rpc' = "ready" /\ UNCHANGED outcome
       ELSE rpc' = "threw" /\ outcome' = [kind |-> "max_retries_exceeded", status |-> 0]
    /\ UNCHANGED <<maxAttempts, script, calls, delays>>

NextRetry ==
    \/ Invoke /\ UNCHANGED exceptRetry
    \/ AttemptReturns /\ UNCHANGED exceptRetry
    \/ AttemptCaught /\ UNCHANGED exceptRetry
    \/ DelayElapsed /\ UNCHANGED exceptRetry

InitRetry == BatchIdle /\ PoolIdle /\ RetryFresh /\ ExtractIdle /\ RateIdle /\ ValidateIdle /\ ParseIdle

SpecRetry == InitRetry /\ [][NextRetry]_vars

(***************************************************************************)
(* extractFromPDF: the Strategy run of one document, with extractFromText  *)
(* and extractFromFullPDF, over the two module-level Semaphore instances   *)
(* textSemaphore and visionSemaphore.  Several runs are in flight at once. *)
(***************************************************************************)
Runs == 1..MaxRuns

Tiers == {"text", "vision"}

Concurrency(t) == IF t = "text" THEN TEXT_CONCURRENCY ELSE VISION_CONCURRENCY

\* JSON values of the reply: null, a missing key, a string
JNull == "<null>"
JUndefined == "<undefined>"

FINANCIAL_FIELDS ==
    {"total_revenue", "earnings_per_share", "net_income", "operating_income",
     "gross_margin", "operating_expenses", "buybacks_and_dividends"}

RecordFields == {"company_name", "quarter"} \cup FINANCIAL_FIELDS

\* the record with company c, quarter q, the fields of `found` set to a value
\* and every other financial field set to `absent` (null or a missing key)
MkRecord(c, q, found, absent) ==
    [f \in RecordFields |->
        IF f = "company_name" THEN c
        ELSE IF f = "quarter" THEN q
        ELSE IF f \in found THEN "$1.5B" ELSE absent]

FoundSamples ==
    {{}, {"total_revenue"}, {"buybacks_and_dividends"},
     {"total_revenue", "earnings_per_share"},
     {"operating_expenses", "buybacks_and_dividends"},
     FINANCIAL_FIELDS}

\* the records the oracle may reply with
Records ==
    {MkRecord(c, "Q1 2025", found, absent) :
        c \in {JNull, "", "Acme, Inc."}, found \in FoundSamples, absent \in {JNull, JUndefined}}

NoRecord == [f \in RecordFields |-> "<none>"]

\* !data.company_name
Falsy(v) == v \in {JNull, JUndefined, ""}

\* FINANCIAL_FIELDS.filter((f) => data[f] !== null && data[f] !== undefined).length
foundCount(data) ==
    Cardinality({f \in FINANCIAL_FIELDS : data[f] # JNull /\ data[f] # JUndefined})

needsFallbackCompanyOnly(data) == Falsy(data["company_name"])
needsFallback(data) ==
    IF Falsy(data["company_name"]) THEN TRUE
    ELSE foundCount(data) < MIN_FOUND_FIELDS

\* The text a document yields: `lead` whitespace characters, then `body`
\* characters that begin and end with a non-whitespace character, then
\* `trail` whitespace characters; st = "failed" when extractTextFromPDF threw.
Text(lead, body, trail) == [st |-> "ok", lead |-> lead, body |-> body, trail |-> trail]
TextFailed == [st |-> "failed", lead |-> 0, body |-> 0, trail |-> 0]
TextPending == [st |-> "pending", lead |-> 0, body |-> 0, trail |-> 0]

TextSamples ==
    {Text(0, 0, 0), Text(150, 0, 0), Text(1, 98, 0), Text(0, 99, 0), Text(0, 99, 1),
     Text(0, 100, 0), Text(2, 100, 3)}

\* text.length and text.trim().length
TextLength(t) == t.lead + t.body + t.trail
TrimLength(t) == t.body

\* text.trim().length < 100
TooShortOffByOne(t) == TrimLength(t) < MIN_TEXT_CHARS - 1
TooShort(t) == TrimLength(t) < MIN_TEXT_CHARS

NoError == [kind |-> "none", status |-> 0]

FreshRun ==
    [pc |-> "extracting", text |-> TextPending, attempt |-> 0,
     cheap |-> NoRecord, vision |-> NoRecord, result |-> NoRecord,
     from |-> "none", err |-> NoError,
     tcalls |-> 0, vcalls |-> 0, cooled |-> 0]

\* One document with every text and every reply the model knows.
OneDocument ==
    [runs |-> {1}, texts |-> TextSamples \cup {TextFailed}, outcomes |-> Outcomes,
     cheap |-> Records, vision |-> Records]

\* Several documents in flight at once that all need the expensive tier
\* (capacity 1), with one reply and the failures that matter to the pool
\* (retried, not retried).
SharedPools ==
    [runs |-> Runs,
     texts |-> {Text(0, 99, 1)},
     outcomes |-> {Reply, APIError(429), APIError(401)},
     cheap |-> {MkRecord("Acme, Inc.", "Q1 2025", FINANCIAL_FIELDS, JNull),
                MkRecord(JNull, "Q1 2025", {}, JNull)},
     vision |-> {MkRecord("Acme, Inc.", "Q1 2025", FINANCIAL_FIELDS, JNull)}]

ExtractFresh ==
    /\ env \in {OneDocument, SharedPools}
    /\ run = [r \in env.runs |-> FreshRun]
    /\ pool = [t \in Tiers |-> [running |-> 0, queue |-> <<>>, jobs |-> <<>>]]

\* withRetry invokes fn(): one more oracle call of tier t by the run rec
Invoked(rec, t) ==
    [rec EXCEPT !.pc = IF t = "text" THEN "textCall" ELSE "visionCall",
                !.tcalls = IF t = "text" THEN @ + 1 ELSE @,
                !.vcalls = IF t = "vision" THEN @ + 1 ELSE @]

\* Semaphore.run up to the first await of the wrapped call: the run (whose
\* other fields are already those of rec) parks in the queue, or takes a
\* slot and issues attempt 1
EnterTier(r, rec, t) ==
    IF pool[t].running >= Concurrency(t)
    THEN /\ pool' = [pool EXCEPT ![t].queue = Append(@, r)]
         /\ run' = [run EXCEPT ![r] = [rec EXCEPT !.pc = IF t = "text" THEN "textWait" ELSE "visionWait"]]
    ELSE /\ pool' = [pool EXCEPT ![t].running = @ + 1]
         /\ run' = [run EXCEPT ![r] = Invoked([rec EXCEPT !.attempt = 1], t)]

\* finally { this.running--; this.queue.shift()?.(); } of tier t
Released(t) ==
    IF pool[t].queue = <<>>
    THEN [pool EXCEPT ![t].running = @ - 1]
    ELSE [pool EXCEPT ![t].running = @ - 1,
                      ![t].queue = Tail(@),
                      ![t].jobs = Append(@, Head(pool[t].queue))]

\* where extractFromPDF goes once extractTextFromPDF has settled: the catch
\* block and the length test both return extractFromFullPDF(pdfBuffer)
RouteWithoutCatch(t) ==
    IF t.st = "failed" THEN "throw"
    ELSE IF TooShort(t) THEN "vision" ELSE "text"
Route(t) ==
    IF t.st = "failed" THEN "vision"
    ELSE IF TooShort(t) THEN "vision" ELSE "text"

\* `return result` of the call wrapped by visionSemaphore.run
FullPDFResultStale(rec) == rec.cheap
FullPDFResult(rec) == rec.vision

\* extractTextFromPDF settles: extractFromPDF goes on to one of the tiers
TextExtracted(r) ==
    /\ run[r].pc = "extracting"
    /\ \E t \in env.texts :
          LET rec == [run[r] EXCEPT !.text = t]
          IN  IF Route(t) = "throw"
              THEN /\ run' = [run EXCEPT ![r] = [rec EXCEPT !.pc = "failed",
                                  !.err = [kind |-> "extraction_error", status |-> 0]]]
                   /\ UNCHANGED pool
              ELSE EnterTier(r, rec, Route(t))

\* the continuation of a woken waiter of tier t runs: running++, attempt 1
TierResume(t) ==
    /\ pool[t].jobs # <<>>
    /\ LET r == Head(pool[t].jobs)
       IN  /\ pool' = [pool EXCEPT ![t].running = @ + 1, ![t].jobs = Tail(@)]
           /\ run' = [run EXCEPT ![r] = Invoked([run[r] EXCEPT !.attempt = 1], t)]

\* `await extractFromText(text)` throws inside extractFromPDF: nothing
\* catches it, the run fails with what withRetry threw
TextFailureFallsBack(rec, o) ==
    [rec EXCEPT !.pc = "textDone", !.err = throwAPIError(o),
                !.cheap = MkRecord(JNull, JNull, {}, JNull)]
TextFailure(rec, o) == [rec EXCEPT !.pc = "failed", !.err = throwAPIError(o)]

\* withRetry's catch: isRateLimit(error) && attempt < maxAttempts, with the
\* default maxAttempts (neither tier passes the parameter)
RunRetriesAtLimit(rec, o) == isRateLimit(o) /\ rec.attempt <= RETRY_MAX_ATTEMPTS
RunRetries(rec, o) == isRateLimit(o) /\ rec.attempt < RETRY_MAX_ATTEMPTS

\* the cheap-tier call of a run settles with outcome o (reply data when ok)
TextCallSettles(r, o, data) ==
    /\ run[r].pc = "textCall"
    /\ IF o.ok
       THEN /\ run' = [run EXCEPT ![r].pc = "textDone", ![r].cheap = data]
            /\ pool' = Released("text")
       ELSE IF RunRetries(run[r], o)
       THEN /\ run' = [run EXCEPT ![r].pc = "textDelay"]
            /\ UNCHANGED pool
       ELSE /\ run' = [run EXCEPT ![r] = TextFailure(run[r], o)]
            /\ pool' = Released("text")

\* the expensive-tier call of a run settles with outcome o
VisionCallSettles(r, o, data) ==
    /\ run[r].pc = "visionCall"
    /\ IF o.ok
       THEN /\ run' = [run EXCEPT ![r].pc = "cooldown", ![r].vision = data]
            /\ UNCHANGED pool
       ELSE IF RunRetries(run[r], o)
       THEN /\ run' = [run EXCEPT ![r].pc = "visionDelay"]
            /\ UNCHANGED pool
       ELSE /\ run' = [run EXCEPT ![r].pc = "failed", ![r].err = throwAPIError(o)]
            /\ pool' = Released("vision")

\* the backoff timer of a run fires: attempt++ and the next call is issued
BackoffElapsed(r) ==
    /\ run[r].pc \in {"textDelay", "visionDelay"}
    /\ run' = [run EXCEPT ![r] =
                  Invoked([run[r] EXCEPT !.attempt = @ + 1],
                          IF run[r].pc = "textDelay" THEN "text" ELSE "vision")]
    /\ UNCHANGED pool

\* extractFromPDF after `await extractFromText(text)`: needsFallback
TextEvaluated(r) ==
    /\ run[r].pc = "textDone"
    /\ IF needsFallback(run[r].cheap)
       THEN EnterTier(r, run[r], "vision")
       ELSE /\ run' = [run EXCEPT ![r].pc = "accepted", ![r].result = run[r].cheap,
                                  ![r].from = "text"]
            /\ UNCHANGED pool

\* the POST_VISION_DELAY_MS timer fires: the wrapped call returns, the slot
\* is released and extractFromPDF returns the expensive-tier record
CooldownElapsed(r) ==
    /\ run[r].pc = "cooldown"
    /\ run' = [run EXCEPT ![r].pc = "accepted", ![r].from = "vision",
                          ![r].cooled = POST_VISION_DELAY_MS,
                          ![r].result = FullPDFResult(run[r])]
    /\ pool' = Released("vision")

NextExtract ==
    \/ \E r \in DOMAIN run : TextExtracted(r) /\ UNCHANGED <<env, exceptExtract>>
    \/ \E t \in Tiers : TierResume(t) /\ UNCHANGED <<env, exceptExtract>>
    \/ \E r \in DOMAIN run, o \in env.outcomes, data \in env.cheap :
          TextCallSettles(r, o, data) /\ UNCHANGED <<env, exceptExtract>>
    \/ \E r \in DOMAIN run, o \in env.outcomes, data \in env.vision :
          VisionCallSettles(r, o, data) /\ UNCHANGED <<env, exceptExtract>>
    \/ \E r \in DOMAIN run : BackoffElapsed(r) /\ UNCHANGED <<env, exceptExtract>>
    \/ \E r \in DOMAIN run : TextEvaluated(r) /\ UNCHANGED <<env, exceptExtract>>
    \/ \E r \in DOMAIN run : CooldownElapsed(r) /\ UNCHANGED <<env, exceptExtract>>

InitExtract == BatchIdle /\ PoolIdle /\ RetryIdle /\ ExtractFresh /\ RateIdle /\ ValidateIdle /\ ParseIdle

SpecExtract == InitExtract /\ [][NextExtract]_vars

(***************************************************************************)
(* checkRateLimit with its cleanup timer (lib/rate-limit.ts) and proxy,    *)
(* which gates every request (proxy.ts).                                   *)
(***************************************************************************)
\* RATE_LIMIT_WINDOW_MS settings
Windows == {1000}

\* the instants at which something happens: within a window of the start, at
\* its end, within a window of the first run of the cleanup callback and
\* just after it
Instants ==
    {0, 999, 1000, CLEANUP_INTERVAL - 1000, CLEANUP_INTERVAL - 999, CLEANUP_INTERVAL,
     CLEANUP_INTERVAL + 1}

\* request headers: x-forwarded-for (a comma-separated list, already split
\* and trimmed) and x-real-ip; <<>> and "" when the header is not sent
Headers ==
    {[xff |-> <<"1.2.3.4", "10.0.0.1">>, real |-> ""],
     [xff |-> <<"">>, real |-> "1.2.3.4"],
     [xff |-> <<>>, real |-> ""]}

\* x-forwarded-for?.split(",")[0]?.trim() || x-real-ip || "unknown"
ClientKey(h) ==
    IF h.xff # <<>> /\ h.xff[1] # "" THEN h.xff[1]
    ELSE IF h.real # "" THEN h.real
    ELSE "unknown"

Paths == {"/api/extract", "/api/template", "/login", "/favicon.ico"}

\* pathname.startsWith("/_next") || startsWith("/favicon") || endsWith(".ico")
IsStatic(path) == path \in {"/favicon.ico"}

\* PUBLIC_PATHS.some((p) => pathname === p || pathname.startsWith(p + "/"))
isPublicPath(path) == path \in {"/login", "/api/auth"}

\* pathname.startsWith("/api/")
IsApi(path) == path \in {"/api/extract", "/api/auth", "/api/template"}

\* retryAfterMs: number | null, where the number may be NaN
Num(n) == [kind |-> "number", val |-> n]
NaN == [kind |-> "NaN", val |-> 0]
Null == [kind |-> "null", val |-> 0]

\* Math.ceil(n / 1000) of an integer n
CeilSeconds(n) == -((-n) \div 1000)

\* (t) => now - t < WINDOW_MS, of checkRateLimit
InWindowInclusive(t, at) == at - t <= WINDOW_MS
InWindow(t, at) == at - t < WINDOW_MS

\* (t) => now - t < WINDOW_MS, of the cleanup callback
SweepKeepsNewerHalf(t, at) == 2 * (at - t) < WINDOW_MS
SweepKeeps(t, at) == at - t < WINDOW_MS

\* entry.timestamps.length >= MAX_REQUESTS
LimitReachedOffByOne(n) == n > MAX_REQUESTS
LimitReached(n) == n >= MAX_REQUESTS

\* entry.timestamps after the filter of checkRateLimit(ip)
Filtered(ip) ==
    SelectSeq(IF ip \in DOMAIN store THEN store[ip] ELSE <<>>,
              LAMBDA t : InWindow(t, now))

\* the RateLimitResult of checkRateLimit(ip)
CheckResultFromNewest(ip) ==
    LET ts == Filtered(ip)
    IN  IF LimitReached(Len(ts))
        THEN [allowed |-> FALSE, remaining |-> 0,
              retryAfterMs |-> IF ts = <<>> THEN NaN
                               ELSE Num(WINDOW_MS - (now - ts[Len(ts)]))]
        ELSE [allowed |-> TRUE, remaining |-> MAX_REQUESTS - (Len(ts) + 1),
              retryAfterMs |-> Null]
CheckResult(ip) ==
    LET ts == Filtered(ip)
    IN  IF LimitReached(Len(ts))
        THEN [allowed |-> FALSE, remaining |-> 0,
              retryAfterMs |-> IF ts = <<>> THEN NaN
                               ELSE Num(WINDOW_MS - (now - ts[1]))]
        ELSE [allowed |-> TRUE, remaining |-> MAX_REQUESTS - (Len(ts) + 1),
              retryAfterMs |-> Null]

\* the store after checkRateLimit(ip)
StoreAfterCheckAlwaysPush(ip) ==
    [k \in (DOMAIN store) \cup {ip} |->
        IF k # ip THEN store[k] ELSE Append(Filtered(ip), now)]
StoreAfterCheckEveryKey(ip) ==
    [k \in (DOMAIN store) \cup {ip} |->
        IF LimitReached(Len(Filtered(ip))) THEN (IF k = ip THEN Filtered(ip) ELSE store[k])
        ELSE IF k = ip THEN Append(Filtered(ip), now) ELSE Append(store[k], now)]
StoreAfterCheck(ip) ==
    [k \in (DOMAIN store) \cup {ip} |->
        IF k # ip THEN store[k]
        ELSE IF LimitReached(Len(Filtered(ip))) THEN Filtered(ip)
        ELSE Append(Filtered(ip), now)]

\* startCleanup(): arms the interval timer once
TimerAfterCheck ==
    IF cleanupTimer.armed THEN cleanupTimer
    ELSE [armed |-> TRUE, due |-> now + CLEANUP_INTERVAL]

\* the auth check of proxy for a request to path with a valid/invalid session
AuthVerdictSkipped(path, valid) == "pass"
AuthVerdict(path, valid) ==
    IF ~authEnabled THEN "pass"
    ELSE IF ~isPublicPath(path) /\ ~valid
         THEN IF IsApi(path) THEN "unauthorized" ELSE "redirect"
    ELSE IF path = "/login" /\ valid THEN "redirect"
    ELSE "pass"

\* what proxy answers after checkRateLimit returned result
LimitAnswerAlwaysNext(result) ==
    [status |-> 200, checked |-> TRUE, next |-> TRUE]
LimitAnswer(result) ==
    IF ~result.allowed
    THEN [status |-> 429, checked |-> TRUE, next |-> FALSE,
          retryAfter |-> CeilSeconds(IF result.retryAfterMs.kind = "number"
                                     THEN result.retryAfterMs.val ELSE 0)]
    ELSE [status |-> 200, checked |-> TRUE, next |-> TRUE]

RateFresh ==
    /\ WINDOW_MS \in Windows
    /\ MAX_REQUESTS \in 0..MaxLimit
    /\ authEnabled \in BOOLEAN
    /\ store = <<>>
    /\ cleanupTimer = NoTimer
    /\ now = 0
    /\ log = <<>>
    /\ last = NoAnswer

\* time passes until the instant t
Tick(t) ==
    /\ t > now
    /\ now' = t
    /\ UNCHANGED <<WINDOW_MS, MAX_REQUESTS, authEnabled, store, cleanupTimer, log, last>>

\* proxy(request): the whole handler, checkRateLimit included
Request(path, h, valid) ==
    /\ IF IsStatic(path)
       THEN /\ last' = [status |-> 200, checked |-> FALSE, next |-> TRUE]
            /\ UNCHANGED <<store, cleanupTimer, log>>
       ELSE IF AuthVerdict(path, valid) = "unauthorized"
       THEN /\ last' = [status |-> 401, checked |-> FALSE, next |-> FALSE]
            /\ UNCHANGED <<store, cleanupTimer, log>>
       ELSE IF AuthVerdict(path, valid) = "redirect"
       THEN /\ last' = [status |-> 307, checked |-> FALSE, next |-> FALSE]
            /\ UNCHANGED <<store, cleanupTimer, log>>
       ELSE IF path = "/api/extract"
       THEN /\ Len(log) < MaxChecks
            /\ LET ip == ClientKey(h)
                   result == CheckResult(ip)
               IN  /\ store' = StoreAfterCheck(ip)
                   /\ cleanupTimer' = TimerAfterCheck
                   /\ last' = LimitAnswer(result)
                   /\ log' = Append(log, [key |-> ip, at |-> now, result |-> result,
                                          answer |-> LimitAnswer(result)])
       ELSE /\ last' = [status |-> 200, checked |-> FALSE, next |-> TRUE]
            /\ UNCHANGED <<store, cleanupTimer, log>>
    /\ UNCHANGED <<WINDOW_MS, MAX_REQUESTS, authEnabled, now>>

\* the setInterval callback of startCleanup runs
SweepClearsAll ==
    /\ cleanupTimer.armed
    /\ now >= cleanupTimer.due
    /\ store' = <<>>
    /\ cleanupTimer' = [cleanupTimer EXCEPT !.due = now + CLEANUP_INTERVAL]
    /\ UNCHANGED <<WINDOW_MS, MAX_REQUESTS, authEnabled, now, log, last>>
Sweep ==
    /\ cleanupTimer.armed
    /\ now >= cleanupTimer.due
    /\ LET kept == [k \in DOMAIN store |->
                       SelectSeq(store[k], LAMBDA t : SweepKeeps(t, now))]
       IN  store' = [k \in {x \in DOMAIN store : kept[x] # <<>>} |-> kept[k]]
    /\ cleanupTimer' = [cleanupTimer EXCEPT !.due = now + CLEANUP_INTERVAL]
    /\ UNCHANGED <<WINDOW_MS, MAX_REQUESTS, authEnabled, now, log, last>>

NextRate ==
    \/ \E t \in Instants : Tick(t) /\ UNCHANGED exceptRate
    \/ \E path \in Paths, h \in Headers, valid \in BOOLEAN :
          Request(path, h, valid) /\ UNCHANGED exceptRate
    \/ Sweep /\ UNCHANGED exceptRate

InitRate == BatchIdle /\ PoolIdle /\ RetryIdle /\ ExtractIdle /\ RateFresh /\ ValidateIdle /\ ParseIdle

SpecRate == InitRate /\ [][NextRate]_vars

(***************************************************************************)
(* validateExtraction and parseFinancialString (lib/validator.ts).         *)
(* A JavaScript string is the sequence of its characters; a number is a    *)
(* decimal m * 10^e with a sign, or NaN.                                   *)
(***************************************************************************)
VNull == [t |-> "null", s |-> <<>>]
VUndefined == [t |-> "undefined", s |-> <<>>]
Str(s) == [t |-> "string", s |-> s]

\* !v for v: string | null | undefined
VFalsy(v) == v.t # "string" \/ v.s = <<>>

DigitChars == <<"0", "1", "2", "3", "4", "5", "6", "7", "8", "9">>
Digits == {DigitChars[i] : i \in 1..10}
DigitVal(c) == (CHOOSE i \in 1..10 : DigitChars[i] = c) - 1

\* the characters \s matches, among those of the strings modelled
Whitespace == {" "}

UpperCase == <<"A", "B", "I", "L", "M", "N", "O", "R", "T">>
LowerCase == <<"a", "b", "i", "l", "m", "n", "o", "r", "t">>

\* String.prototype.toLowerCase, one character
Lower(c) ==
    IF \E i \in 1..Len(UpperCase) : UpperCase[i] = c
    THEN LowerCase[CHOOSE i \in 1..Len(UpperCase) : UpperCase[i] = c]
    ELSE c
ToLowerCase(s) == [i \in 1..Len(s) |-> Lower(s[i])]

RECURSIVE TrimLeft(_)
TrimLeft(s) == IF s # <<>> /\ s[1] \in Whitespace THEN TrimLeft(Tail(s)) ELSE s

RECURSIVE TrimRight(_)
TrimRight(s) ==
    IF s # <<>> /\ s[Len(s)] \in Whitespace THEN TrimRight(SubSeq(s, 1, Len(s) - 1)) ELSE s

\* String.prototype.trim
Trim(s) == TrimRight(TrimLeft(s))

\* s.replace(/[cs]/g, "")
Without(s, cs) == SelectSeq(s, LAMBDA c : c \notin cs)

\* the number of leading decimal digits of s
RECURSIVE NumDigits(_)
NumDigits(s) == IF s = <<>> \/ s[1] \notin Digits THEN 0 ELSE 1 + NumDigits(Tail(s))

\* the natural number written by the digit sequence s (0 for no digit)
RECURSIVE DigitsValue(_)
DigitsValue(s) ==
    IF s = <<>> THEN 0
    ELSE 10 * DigitsValue(SubSeq(s, 1, Len(s) - 1)) + DigitVal(s[Len(s)])

Dec(neg, m, e) == [kind |-> "number", neg |-> neg, m |-> m, e |-> e]
NotANumber == [kind |-> "NaN", neg |-> FALSE, m |-> 0, e |-> 0]
NoNumber == [kind |-> "null", neg |-> FALSE, m |-> 0, e |-> 0]
Whole(n) == Dec(FALSE, n, 0)

\* x * 10^k
Scale(x, k) == IF x.kind = "number" THEN [x EXCEPT !.e = @ + k] ELSE x

\* Math.abs
Abs(x) == [x EXCEPT !.neg = FALSE]

RECURSIVE NumLen(_)
NumLen(m) == IF m < 10 THEN 1 ELSE 1 + NumLen(m \div 10)

Sign(x) == IF x.m = 0 THEN 0 ELSE IF x.neg THEN -1 ELSE 1

\* |x| < |y| for nonzero numbers: by order of magnitude, then digit by digit
MagLess(x, y) ==
    LET lx == NumLen(x.m) + x.e
        ly == NumLen(y.m) + y.e
    IN  IF lx # ly THEN lx < ly
        ELSE IF x.e >= y.e THEN x.m * 10 ^ (x.e - y.e) < y.m
        ELSE x.m < y.m * 10 ^ (y.e - x.e)

\* x < y as JavaScript compares numbers (false when either is NaN)
Less(x, y) ==
    /\ x.kind = "number"
    /\ y.kind = "number"
    /\ IF Sign(x) # Sign(y) THEN Sign(x) < Sign(y)
       ELSE IF Sign(x) = 0 THEN FALSE
       ELSE IF Sign(x) = 1 THEN MagLess(x, y)
       ELSE MagLess(y, x)

\* parseFloat(s): leading whitespace, a sign, digits, a fraction; the
\* longest such prefix, NaN when it has no digit
parseFloat(s) ==
    LET t == TrimLeft(s)
        signed == t # <<>> /\ t[1] \in {"-", "+"}
        u == IF signed THEN Tail(t) ELSE t
        ni == NumDigits(u)
        a == SubSeq(u, ni + 1, Len(u))
        dot == a # <<>> /\ a[1] = "."
        nf == IF dot THEN NumDigits(Tail(a)) ELSE 0
    IN  IF ni + nf = 0 THEN NotANumber
        ELSE Dec(signed /\ t[1] = "-",
                 DigitsValue(SubSeq(u, 1, ni) \o (IF dot THEN SubSeq(a, 2, nf + 1) ELSE <<>>)),
                 -nf)

Suffixes ==
    {<<"t">>, <<"b">>, <<"m">>,
     <<"t", "r", "i", "l", "l", "i", "o", "n">>,
     <<"b", "i", "l", "l", "i", "o", "n">>,
     <<"m", "i", "l", "l", "i", "o", "n">>}

\* the decimal exponent of multipliers[suffix] (|| 1 when there is none)
SuffixExpIgnored(suffix) == 0
SuffixExp(suffix) ==
    IF suffix = <<>> THEN 0
    ELSE IF suffix[1] = "t" THEN 12
    ELSE IF suffix[1] = "b" THEN 9
    ELSE 6

\* cleaned.match(/^(-?\d+\.?\d*)\s*(trillion|billion|million|t|b|m)?$/)
MatchAmount(cleaned) ==
    LET neg == cleaned # <<>> /\ cleaned[1] = "-"
        u == IF neg THEN Tail(cleaned) ELSE cleaned
        ni == NumDigits(u)
        a == SubSeq(u, ni + 1, Len(u))
        dot == a # <<>> /\ a[1] = "."
        b == IF dot THEN Tail(a) ELSE a
        nf == NumDigits(b)
        rest == TrimLeft(SubSeq(b, nf + 1, Len(b)))
        n == (IF neg THEN 1 ELSE 0) + ni + (IF dot THEN 1 ELSE 0) + nf
    IN  [ok |-> ni >= 1 /\ rest \in Suffixes \cup {<<>>},
         num |-> SubSeq(cleaned, 1, n),
         suffix |-> rest]

parseFinancialString(value) ==
    IF VFalsy(value) THEN NoNumber
    ELSE LET cleaned == ToLowerCase(Trim(Without(value.s, {",", "$"})))
             match == MatchAmount(cleaned)
         IN  IF ~match.ok THEN NoNumber
             ELSE Scale(parseFloat(match.num), SuffixExp(match.suffix))

\* gm of the gross margin block
GrossMargin(v) ==
    LET gmStr == Trim(v.s)
    IN  IF gmStr # <<>> /\ gmStr[Len(gmStr)] = "%"
        THEN Scale(parseFloat(SubSeq(gmStr, 1, Len(gmStr) - 1)), -2)
        ELSE parseFloat(gmStr)

\* gm < 0 || gm > 1
OutOfRangeOpen(gm) == ~Less(Whole(0), gm) \/ ~Less(gm, Whole(1))
OutOfRange(gm) == Less(gm, Whole(0)) \/ Less(Whole(1), gm)

\* Math.abs(epsNum) > 100
EpsTooHigh(v) == Less(Whole(100), Abs(parseFloat(Without(v.s, {"$", ",", " "}))))

FinancialFieldList ==
    <<"total_revenue", "earnings_per_share", "net_income", "operating_income",
      "gross_margin", "operating_expenses", "buybacks_and_dividends">>

\* financialFields.filter((f) => f !== null && f !== undefined).length
filledCount(data) ==
    Cardinality({i \in 1..Len(FinancialFieldList) : data[FinancialFieldList[i]].t = "string"})

MissingCompany == "Missing company name"
MissingQuarter == "Missing quarter"
MarginRange == "Gross margin outside expected range 0-100%"
EpsHigh == "EPS seems unusually high"
RevenueNegative == "Total revenue is negative"
IncomeExceedsRevenue == "Net income exceeds total revenue"
NoFinancialData == "No financial data was extracted"

If(cond, msg) == IF cond THEN <<msg>> ELSE <<>>

\* const warnings: string[] = []; const errors: string[] = [];
NewArrayKept(old) == old
NewArray(old) == <<>>

\* valid: errors.length === 0
IsValidNoWarnings(errors, warnings) == Len(errors) = 0 /\ Len(warnings) = 0
IsValid(errors, warnings) == Len(errors) = 0

\* validateExtraction(data), its two arrays starting as warnings0 and errors0
validateExtraction(data, warnings0, errors0) ==
    LET errors ==
            errors0 \o If(VFalsy(data["company_name"]), MissingCompany)
                    \o If(VFalsy(data["quarter"]), MissingQuarter)
        gm == GrossMargin(data["gross_margin"])
        revenue == parseFinancialString(data["total_revenue"])
        netIncome == parseFinancialString(data["net_income"])
        warnings ==
            warnings0
            \o If(~VFalsy(data["gross_margin"]) /\ gm.kind = "number" /\ OutOfRange(gm),
                  MarginRange)
            \o If(~VFalsy(data["earnings_per_share"]) /\ EpsTooHigh(data["earnings_per_share"]),
                  EpsHigh)
            \o If(revenue.kind # "null" /\ Less(revenue, Whole(0)), RevenueNegative)
            \o If(revenue.kind # "null" /\ netIncome.kind # "null" /\ Less(revenue, netIncome),
                  IncomeExceedsRevenue)
            \o If(filledCount(data) = 0, NoFinancialData)
    IN  [valid |-> IsValid(errors, warnings), warnings |-> warnings, errors |-> errors]

CompanySamples == {VNull, Str(<<>>), Str(<<"A", "c", "m", "e">>)}
QuarterSamples == {VNull, Str(<<"Q", "1">>)}
MarginSamples ==
    {VNull, Str(<<"1", "5", "0", "%">>), Str(<<"0", "%">>), Str(<<"1", "0", "0", "%">>), Str(<<"5", "0", ".", "5", "%">>),
     Str(<<"0", ".", "5", "0", "5">>), Str(<<"-", "5", "%">>), Str(<<"1", "0", "0", ".", "1", "%">>), Str(<<"N", "/", "A">>), Str(<<"1", ".", "5">>), Str(<<" ", "1", "0", "0", " ", "%">>)}
EpsSamples == {VNull, Str(<<"$", "1", ".", "5", "9">>), Str(<<"$", "1", ",", "2", "5", "0", ".", "0", "0">>), Str(<<"-", "$", "1", "5", "0">>)}
RevenueSamples ==
    {VNull, Str(<<"$", "3", "B">>), Str(<<"$", "9", "0", "0", "M">>), Str(<<"-", "$", "2", "M">>),
     Str(<<"N", "/", "A">>), Str(<<"$", "1", ",", "2", "0", "0", "M">>)}
NetIncomeSamples ==
    {VNull, Str(<<"$", "5", "B">>), Str(<<"$", "1", "B">>),
     Str(<<"1", ".", "5", " ", "B", "i", "l", "l", "i", "o", "n">>), Str(<<"$", "2", ".", "9", "5", "B">>)}
OtherSamples == {VNull, VUndefined, Str(<<"$", "2", "M">>)}

\* the records handed to the validator
ValidatorRecords ==
    {[company_name |-> c, quarter |-> q, total_revenue |-> rev, earnings_per_share |-> eps,
      net_income |-> ni, operating_income |-> o, gross_margin |-> gm,
      operating_expenses |-> o, buybacks_and_dividends |-> o] :
        c \in CompanySamples, q \in QuarterSamples, rev \in RevenueSamples,
        eps \in EpsSamples, ni \in NetIncomeSamples, gm \in MarginSamples,
        o \in OtherSamples}

ValidateFresh ==
    /\ vdata \in ValidatorRecords
    /\ vres = NoResult
    /\ vcount = 0

\* one call validateExtraction(vdata)
Validate ==
    /\ vcount < MaxValidations
    /\ vres' = validateExtraction(vdata, NewArray(vres.warnings), NewArray(vres.errors))
    /\ vcount' = vcount + 1
    /\ UNCHANGED vdata

NextValidate == Validate /\ UNCHANGED exceptValidate

InitValidate ==
    BatchIdle /\ PoolIdle /\ RetryIdle /\ ExtractIdle /\ RateIdle /\ ValidateFresh /\ ParseIdle

SpecValidate == InitValidate /\ [][NextValidate]_vars

(***************************************************************************)
(* parseResponse (lib/llm-extractor.ts).  The text of a reply is a         *)
(* sequence of tokens: the braces, the comma, a whole member "key": value  *)
(* (one token per key), a word of prose, a blank.                          *)
(***************************************************************************)
Members == {"company_name", "quarter"}
Word == "word"
Blank == " "

\* JSON.parse(text) of a flat object: blanks between tokens are skipped
JSONParse(text) ==
    LET t == Without(text, {Blank})
        inner == SubSeq(t, 2, Len(t) - 1)
        ok == /\ Len(t) >= 2
              /\ t[1] = "{"
              /\ t[Len(t)] = "}"
              /\ \/ inner = <<>>
                 \/ /\ Len(inner) % 2 = 1
                    /\ \A i \in 1..Len(inner) :
                          IF i % 2 = 1 THEN inner[i] \in Members ELSE inner[i] = ","
    IN  IF ok
        THEN [kind |-> "record", members |-> {inner[i] : i \in {j \in 1..Len(inner) : j % 2 = 1}}]
        ELSE [kind |-> "syntax_error", members |-> {}]

\* textBlock.text.match(/\{[\s\S]*\}/): from the first "{" to the last "}"
JsonMatch(text) ==
    LET opens == {i \in 1..Len(text) : text[i] = "{"}
        first == CHOOSE i \in opens : \A j \in opens : i <= j
        closes == {i \in 1..Len(text) : text[i] = "}" /\ opens # {} /\ i > first}
        last_ == CHOOSE i \in closes : \A j \in closes : i >= j
    IN  IF opens = {} \/ closes = {} THEN [found |-> FALSE, text |-> <<>>]
        ELSE [found |-> TRUE, text |-> SubSeq(text, first, last_)]

ParseFailed == [kind |-> "parse_failure", members |-> {}]

parseResponse(message) ==
    IF ~message.hasText THEN [kind |-> "no_text", members |-> {}]
    ELSE IF JSONParse(message.text).kind = "record" THEN JSONParse(message.text)
    ELSE IF ~JsonMatch(message.text).found THEN ParseFailed
    ELSE IF JSONParse(JsonMatch(message.text).text).kind = "record"
         THEN JSONParse(JsonMatch(message.text).text)
         ELSE ParseFailed

\* the structured objects a reply may embed
ObjectSamples ==
    {<<"{", "}">>,
     <<"{", "company_name", "}">>,
     <<"{", Blank, "quarter", Blank, "}">>,
     <<"{", "company_name", ",", "quarter", "}">>,
     <<"{", "quarter", ",", Blank, "company_name", "}">>}

\* prose around the object, without and with brace characters
ProseSamples ==
    {<<>>, <<Word>>, <<Word, Blank>>, <<Blank, Word, Word>>,
     <<"{", Word, "}">>, <<Word, "{">>, <<"}">>, <<Word, "}", Blank>>}

\* the message: whether it has a text block, the text, and which object
\* the text embeds
ParseFresh ==
    /\ \E pre \in ProseSamples, obj \in ObjectSamples, post \in ProseSamples,
          hasText \in BOOLEAN :
          reply = [hasText |-> hasText, text |-> pre \o obj \o post, object |-> obj]
    /\ parsed = NotParsed

\* one call parseResponse(reply)
Parse ==
    /\ parsed = NotParsed
    /\ parsed' = parseResponse(reply)
    /\ UNCHANGED reply

NextParse == Parse /\ UNCHANGED exceptParse

InitParse ==
    BatchIdle /\ PoolIdle /\ RetryIdle /\ ExtractIdle /\ RateIdle /\ ValidateIdle /\ ParseFresh

SpecParse == InitParse /\ [][NextParse]_vars

(***************************************************************************)
(* C1: a batch that completes returns exactly one entry per input          *)
(* document, and entry i is the outcome of input document i, whatever the  *)
(* order in which the per-document runs completed.                         *)
(***************************************************************************)
C1_OrderPreserved ==
    batch = "resolved" =>
        /\ Len(results) = Len(items)
        /\ \A i \in 1..Len(items) : results[i] = FnResult(items[i])
        /\ response.status = 200 => response.body = results

\* a resolved batch of different documents whose runs completed out of input order
C1_Witness ==
    /\ batch = "resolved"
    /\ response.status = 200
    /\ \E i, j \in 1..Len(completed) :
          /\ i < j
          /\ completed[i] > completed[j]
          /\ items[completed[i] + 1] # items[completed[j] + 1]

(***************************************************************************)
(* C2: a single document's failure never fails the whole batch: when the   *)
(* run of one document fails, the batch call is not rejected and the route *)
(* does not answer with an error for the whole request.                    *)
(***************************************************************************)
C2_FailureIsLocal ==
    (\E w \in DOMAIN wst : wst[w] = "rejected") =>
        /\ batch # "rejected"
        /\ response.status # 500


PosIn(seq, x) == CHOOSE i \in 1..Len(seq) : seq[i] = x

(***************************************************************************)
(* C3: in every reachable state of a pool the number of callers inside     *)
(* their call (the running counter) never exceeds the configured capacity. *)
(***************************************************************************)
C3_PoolBounded ==
    /\ running <= capacity
    /\ InCall <= capacity

(***************************************************************************)
(* C4: a caller that calls run() while `capacity` callers are inside their *)
(* call does not start its own call until a holder has released since.     *)
(***************************************************************************)
C4_BlockedUntilRelease ==
    \A c \in Callers :
        (/\ cst[c] \in {"woken", "running", "returned", "threw"}
         /\ relAtEnter[c].holders >= capacity)
            => releases > relAtEnter[c].releases

\* the (capacity+1)-th caller found the pool full and is now inside its call
C4_Witness ==
    \E c \in Callers :
        /\ cst[c] = "running"
        /\ relAtEnter[c].holders = capacity
        /\ PosIn(entered, c) = capacity + 1
        /\ releases > relAtEnter[c].releases

(***************************************************************************)
(* C5: slots are granted in FIFO order: no caller that called run() later  *)
(* starts its call before a caller that called run() earlier.              *)
(***************************************************************************)
C5_FifoGrant ==
    /\ \A i, j \in 1..Len(started) :
          i < j => PosIn(entered, started[i]) < PosIn(entered, started[j])
    /\ \A c \in Callers :
          cst[c] \in {"waiting", "woken"} =>
              \A i \in 1..Len(started) : PosIn(entered, started[i]) < PosIn(entered, c)

(***************************************************************************)
(* C6: the slot is released whether the call returns or throws: the step   *)
(* in which a call ends decrements running exactly once and wakes at most  *)
(* one waiter (the head of the queue), so the counter always equals the    *)
(* number of callers inside their call.                                    *)
(***************************************************************************)
C6_ReleaseStep ==
    \A c \in Callers :
        (cst[c] = "running" /\ cst'[c] \in {"returned", "threw"}) =>
            /\ running' = running - 1
            /\ running' = InCall'
            /\ IF queue = <<>>
               THEN jobs' = jobs /\ queue' = queue
               ELSE jobs' = Append(jobs, Head(queue)) /\ queue' = Tail(queue)

C6_ReleasedAlways == [][C6_ReleaseStep]_vars

\* a call that threw has released its slot and woken the waiter behind it
C6_Witness ==
    \E c, d \in Callers :
        /\ cst[c] = "threw"
        /\ cst[d] = "woken"
        /\ running = InCall


\* number of leading rate-limit failures of the script
RECURSIVE LeadingRateLimits(_)
LeadingRateLimits(sc) ==
    IF sc = <<>> \/ ~(sc[1] = APIError(429)) THEN 0 ELSE 1 + LeadingRateLimits(Tail(sc))

Finished == rpc \in {"returned", "threw"}

(***************************************************************************)
(* C7: k < maxAttempts rate-limit failures followed by a success yield the *)
(* success result after exactly k+1 calls (2 failures, max 4: 3 calls).    *)
(***************************************************************************)
C7_SuccessAfterRateLimits ==
    LET k == LeadingRateLimits(script)
    IN  (Finished /\ k < maxAttempts /\ script[k + 1].ok) =>
            /\ rpc = "returned"
            /\ outcome.kind = "success"
            /\ calls = k + 1
            /\ Len(delays) = k

\* max attempts 4, two rate-limit failures, then the reply: returned after 3 calls
C7_Witness ==
    /\ maxAttempts = 4
    /\ LeadingRateLimits(script) = 2
    /\ script[3].ok
    /\ rpc = "returned"
    /\ calls = 3

(***************************************************************************)
(* C8: a collaborator that always fails with rate_limited makes the policy *)
(* fail after exactly maxAttempts calls, and no collaborator ever receives *)
(* more than maxAttempts calls.                                            *)
(***************************************************************************)
C8_BoundedAttempts ==
    /\ calls <= maxAttempts
    /\ (Finished /\ LeadingRateLimits(script) >= maxAttempts) =>
           /\ rpc = "threw"
           /\ calls = maxAttempts

\* max attempts 4, every call rate limited: failed after the 4th call
C8_Witness ==
    /\ maxAttempts = 4
    /\ LeadingRateLimits(script) = ScriptLen
    /\ rpc = "threw"
    /\ calls = 4

(***************************************************************************)
(* C9: when every attempt up to the maximum fails with rate_limited, the   *)
(* surfaced failure is the "rate limit exceeded" kind, different from the  *)
(* kinds surfaced for authentication, malformed-request and other service  *)
(* errors.                                                                 *)
(***************************************************************************)
C9_ExhaustedIsRateLimitKind ==
    (/\ rpc = "threw"
     /\ maxAttempts = RETRY_MAX_ATTEMPTS
     /\ LeadingRateLimits(script) >= maxAttempts) =>
        /\ outcome.kind \in {"rate_limit_exceeded", "max_retries_exceeded"}
        /\ outcome.kind \notin {throwAPIError(APIError(401)).kind,
                                throwAPIError(APIError(400)).kind,
                                throwAPIError(APIError(500)).kind}

(***************************************************************************)
(* C10: a failure that is not a rate-limit signal is not retried: the      *)
(* policy never calls the collaborator past its first such failure, waits  *)
(* no delay after it and throws it at once, classified.                    *)
(***************************************************************************)
C10_NoRetryOfOtherFailures ==
    LET f == LeadingRateLimits(script) + 1
    IN  (f <= maxAttempts /\ ~script[f].ok) =>
            /\ calls <= f
            /\ Len(delays) <= f - 1
            /\ (calls = f /\ rpc # "awaiting") =>
                   /\ rpc = "threw"
                   /\ outcome = throwAPIError(script[f])
                   /\ ~ENABLED NextRetry

\* a parse failure on the second attempt, after one rate-limit retry, was thrown
C10_Witness ==
    /\ LeadingRateLimits(script) = 1
    /\ script[2] = ParseFailure
    /\ maxAttempts >= 3
    /\ rpc = "threw"
    /\ calls = 2
    /\ outcome.kind = "rethrown"


VisionStates == {"visionWait", "visionCall", "visionDelay", "cooldown"}

Ended(r) == run[r].pc \in {"accepted", "failed"}

(***************************************************************************)
(* C11: a document whose extracted text is shorter than 100 characters     *)
(* goes to the expensive tier and its run never calls the cheap tier.      *)
(***************************************************************************)
C11_ShortTextSkipsCheapTier ==
    \A r \in DOMAIN run :
        (run[r].text.st = "ok" /\ TextLength(run[r].text) < MIN_TEXT_CHARS) =>
            /\ run[r].tcalls = 0
            /\ run[r].cheap = NoRecord
            /\ run[r].from # "text"
            /\ run[r].pc \in VisionStates \cup {"accepted", "failed"}
            /\ Ended(r) => run[r].vcalls >= 1

\* a text of 99 characters: accepted from the expensive tier, no cheap call
C11_Witness ==
    \E r \in DOMAIN run :
        /\ run[r].text = Text(0, 99, 0)
        /\ run[r].pc = "accepted"
        /\ run[r].from = "vision"
        /\ run[r].tcalls = 0
        /\ run[r].vcalls >= 1

(***************************************************************************)
(* C12: when the text extractor fails outright the run goes straight to    *)
(* the expensive tier: the cheap tier is never called and the extractor's  *)
(* failure is not the failure of the document.                             *)
(***************************************************************************)
C12_ExtractorFailureEscalates ==
    \A r \in DOMAIN run :
        run[r].text.st = "failed" =>
            /\ run[r].tcalls = 0
            /\ run[r].pc \in VisionStates \cup {"accepted", "failed"}
            /\ Ended(r) => run[r].vcalls >= 1
            /\ run[r].err.kind # "extraction_error"

\* the extractor failed and the document was accepted from the expensive tier
C12_Witness ==
    \E r \in DOMAIN run :
        /\ run[r].text.st = "failed"
        /\ run[r].pc = "accepted"
        /\ run[r].from = "vision"
        /\ run[r].tcalls = 0

\* the claim's sufficiency test, on the record the cheap tier replied with
CompanyAbsent(data) == data["company_name"] \in {JNull, JUndefined, ""}
PresentFields(data) == {f \in FINANCIAL_FIELDS : data[f] \notin {JNull, JUndefined}}
Insufficient(data) == CompanyAbsent(data) \/ Cardinality(PresentFields(data)) < 2

(***************************************************************************)
(* C13: after a successful cheap-tier reply the run escalates exactly when *)
(* the company identifier is absent (null, missing or empty) or fewer than *)
(* 2 of the 7 financial fields are present; otherwise the cheap record is  *)
(* accepted and the expensive tier is never called.                        *)
(***************************************************************************)
C13_EscalatesIffInsufficient ==
    \A r \in DOMAIN run :
        (run[r].cheap # NoRecord /\ run[r].pc # "textDone") =>
            IF Insufficient(run[r].cheap)
            THEN /\ run[r].pc \in VisionStates \cup {"accepted", "failed"}
                 /\ run[r].from # "text"
                 /\ Ended(r) => run[r].vcalls >= 1
            ELSE /\ run[r].pc = "accepted"
                 /\ run[r].from = "text"
                 /\ run[r].result = run[r].cheap
                 /\ run[r].vcalls = 0

\* a cheap record with the company and exactly 2 financial fields was accepted
C13_Witness ==
    \E r \in DOMAIN run :
        /\ run[r].pc = "accepted"
        /\ run[r].from = "text"
        /\ ~CompanyAbsent(run[r].cheap)
        /\ Cardinality(PresentFields(run[r].cheap)) = 2
        /\ run[r].vcalls = 0

(***************************************************************************)
(* C14: from Escalating a run ends Accepted with the expensive-tier record *)
(* when the expensive call succeeds and Failed when the retry policy gives *)
(* up; Accepted and Failed are terminal (no further call, no change), and  *)
(* the expensive-tier record is accepted without a sufficiency test.       *)
(***************************************************************************)
C14_Step ==
    \A r \in DOMAIN run :
        /\ Ended(r) => run'[r] = run[r]
        /\ (run[r].pc = "visionCall" /\ run'[r].pc # "visionCall") =>
               \/ run'[r].pc = "cooldown" /\ run'[r].vision \in env.vision
               \/ run'[r].pc = "visionDelay" /\ run[r].attempt < RETRY_MAX_ATTEMPTS
               \/ run'[r].pc = "failed" /\ run'[r].err # NoError
        /\ (run[r].pc = "cooldown" /\ run'[r].pc # "cooldown") =>
               /\ run'[r].pc = "accepted"
               /\ run'[r].from = "vision"
               /\ run'[r].result = run[r].vision
               /\ run'[r].vcalls = run[r].vcalls

C14_EscalationEnds == [][C14_Step]_vars

\* an expensive-tier record that would not pass the sufficiency test of the
\* cheap tier was accepted, after an insufficient cheap record
C14_Witness ==
    \E r \in DOMAIN run :
        /\ run[r].pc = "accepted"
        /\ run[r].from = "vision"
        /\ run[r].result = run[r].vision
        /\ run[r].cheap # NoRecord
        /\ run[r].cheap # run[r].vision
        /\ Insufficient(run[r].result)

(***************************************************************************)
(* C15: after every expensive-pool call that completes, the slot stays     *)
(* held for the cool-down before it is released, so no other expensive     *)
(* call is in flight or starts while a run is cooling down.                *)
(***************************************************************************)
C15_CooldownBeforeRelease ==
    /\ \A r \in DOMAIN run :
          (Ended(r) /\ run[r].vcalls > 0) => run[r].cooled >= POST_VISION_DELAY_MS
    /\ \A r, q \in DOMAIN run :
          (r # q /\ run[r].pc = "cooldown") => run[q].pc \notin {"visionCall", "visionDelay"}


Keys == {ClientKey(h) : h \in Headers}

\* the checkRateLimit calls for key k, in order
KeyLog(k) == SelectSeq(log, LAMBDA e : e.key = k)

(***************************************************************************)
(* C16: with a window of 1000 ms and at most 2 requests, the first three   *)
(* checks of a key, made within 1000 ms, answer true, true, false; and a   *)
(* fourth check made once 1000 ms have passed since the first answers true.*)
(***************************************************************************)
C16_TwoPerSecond ==
    (WINDOW_MS = 1000 /\ MAX_REQUESTS = 2) =>
        \A k \in Keys :
            LET s == KeyLog(k)
            IN  (Len(s) >= 3 /\ s[3].at - s[1].at < 1000) =>
                    /\ s[1].result.allowed
                    /\ s[2].result.allowed
                    /\ ~s[3].result.allowed
                    /\ (Len(s) >= 4 /\ s[4].at - s[1].at >= 1000) => s[4].result.allowed

\* true, true, false within the window, then true exactly 1000 ms after the first
C16_Witness ==
    /\ WINDOW_MS = 1000
    /\ MAX_REQUESTS = 2
    /\ \E k \in Keys :
          LET s == KeyLog(k)
          IN  /\ Len(s) = 4
              /\ s[3].at - s[1].at < 1000
              /\ s[3].at > s[1].at
              /\ ~s[3].result.allowed
              /\ s[4].at - s[1].at = 1000
              /\ s[4].result.allowed

\* the timestamps of key k, none when the key has no entry
Stamps(st, k) == IF k \in DOMAIN st THEN st[k] ELSE <<>>

(***************************************************************************)
(* C17: whenever a check of a key decides, the timestamps it counts are    *)
(* exactly the recorded ones with now - t < window: every counted          *)
(* timestamp is inside the window and none inside the window is dropped.   *)
(***************************************************************************)
C17_Step ==
    Len(log') = Len(log) + 1 =>
        LET e == log'[Len(log')]
            before == Stamps(store, e.key)
            counted == IF e.result.allowed
                       THEN SubSeq(store'[e.key], 1, Len(store'[e.key]) - 1)
                       ELSE store'[e.key]
        IN  /\ \A i \in 1..Len(counted) : e.at - counted[i] < WINDOW_MS
            /\ counted = SelectSeq(before, LAMBDA t : e.at - t < WINDOW_MS)
            /\ e.result.allowed <=> Len(counted) < MAX_REQUESTS

C17_CountsOnlyWindow == [][C17_Step]_vars

\* with one request per window, a key admitted again exactly one window
\* after its previous admission: the old timestamp was not counted
C17_Witness ==
    /\ MAX_REQUESTS = 1
    /\ \E i, j \in 1..Len(log) :
          /\ i < j
          /\ log[i].key = log[j].key
          /\ log[i].result.allowed
          /\ log[j].result.allowed
          /\ log[j].at - log[i].at = WINDOW_MS
          /\ Stamps(store, log[j].key) = <<log[j].at>>

\* the cleanup callback runs in this step
SweepStep == cleanupTimer.armed /\ cleanupTimer'.due # cleanupTimer.due

\* the cleanup callback has run at least once
Swept == cleanupTimer.armed /\ log # <<>> /\ cleanupTimer.due > log[1].at + CLEANUP_INTERVAL

(***************************************************************************)
(* C18: the sweep runs on its own timer, not on a request; it removes      *)
(* exactly the timestamps that are no longer within the window, deletes a  *)
(* key whose timestamps are all gone, and never removes a timestamp that   *)
(* is still within the window.                                             *)
(***************************************************************************)
C18_Step ==
    SweepStep =>
        /\ log' = log
        /\ last' = last
        /\ now >= cleanupTimer.due
        /\ DOMAIN store' \subseteq DOMAIN store
        /\ \A k \in DOMAIN store :
              LET within == SelectSeq(store[k], LAMBDA t : now - t < WINDOW_MS)
              IN  IF within = <<>>
                  THEN k \notin DOMAIN store'
                  ELSE k \in DOMAIN store' /\ store'[k] = within

C18_SweepRemovesExpired == [][C18_Step]_vars

\* after a sweep: a key admitted a full window earlier is gone, another key
\* admitted 999 ms before the sweep still has its timestamp
C18_Witness ==
    /\ Swept
    /\ cleanupTimer.due = now + CLEANUP_INTERVAL
    /\ \E i, j \in 1..Len(log) :
          /\ log[i].result.allowed
          /\ now - log[i].at >= WINDOW_MS
          /\ log[i].key \notin DOMAIN store
          /\ log[j].result.allowed
          /\ now - log[j].at = WINDOW_MS - 1
          /\ Stamps(store, log[j].key) = <<log[j].at>>

(***************************************************************************)
(* C19: a request that the limiter denies is answered 429 with a           *)
(* Retry-After of retryAfterMs rounded up to seconds, and is not passed on *)
(* to the route handler, so no document processing starts for it.          *)
(***************************************************************************)
C19_DeniedBeforeProcessing ==
    /\ \A i \in 1..Len(log) :
          ~log[i].result.allowed =>
              /\ log[i].answer.status = 429
              /\ ~log[i].answer.next
              /\ log[i].result.retryAfterMs.kind = "number" =>
                    /\ log[i].answer.retryAfter * 1000 >= log[i].result.retryAfterMs.val
                    /\ (log[i].answer.retryAfter - 1) * 1000 < log[i].result.retryAfterMs.val
    /\ last.status = 429 => ~last.next

\* a denial 1 ms before the window of the oldest request ends: Retry-After 1
C19_Witness ==
    /\ last.status = 429
    /\ \E i \in 1..Len(log) :
          /\ ~log[i].result.allowed
          /\ log[i].result.retryAfterMs = Num(1)
          /\ log[i].answer.retryAfter = 1
          /\ log[i].answer = last

\* the workers that are awaiting fn(items[index])
InFlight == {w \in DOMAIN wst : wst[w] = "awaiting"}

(***************************************************************************)
(* C20: the batch coordinator never has more runs in flight than the       *)
(* worker bound: it starts min(bound, number of documents) workers, each   *)
(* worker has one document in flight, and an index is pulled only by a     *)
(* worker that has finished its previous document.                         *)
(***************************************************************************)
C20_WorkerBound ==
    batch # "notcalled" =>
        /\ Cardinality(DOMAIN wst) = Min(concurrency, Len(items))
        /\ Cardinality(InFlight) <= concurrency
        /\ \A w, v \in InFlight : w # v => widx[w] # widx[v]
        /\ nextIndex - Len(completed) <= concurrency
        /\ batch = "pending" => Cardinality(InFlight) = nextIndex - Len(completed)

\* 3 documents, bound 2: one document done, two in flight, none left
C20_Witness ==
    /\ Len(items) = 3
    /\ concurrency = 2
    /\ batch = "pending"
    /\ Cardinality(InFlight) = 2
    /\ nextIndex = 3
    /\ Len(completed) = 1


\* the positions of index i in the order of settlement
Settled(i) == {p \in 1..Len(completed) : completed[p] = i}

(***************************************************************************)
(* C21: in a batch every document index is claimed by exactly one worker,  *)
(* gets exactly one run and has its result slot written exactly once: at   *)
(* no time do two workers hold the same index, and when the workers have   *)
(* stopped no document was skipped and every slot is written.              *)
(***************************************************************************)
C21_EachIndexOnce ==
    batch # "notcalled" =>
        /\ \A w, v \in InFlight : w # v => widx[w] # widx[v]
        /\ \A i \in 0..(Len(items) - 1) : Cardinality(Settled(i)) <= 1
        /\ InFlight = {} =>
              \A i \in 0..(Len(items) - 1) :
                  /\ Cardinality(Settled(i)) = 1
                  /\ results[i + 1].set

C28_Step ==
    (\E p \in 1..Len(thrown) : thrown[p].error.kind = "invalid_api_key") =>
        nextIndex' = nextIndex

C28_AuthErrorHalts == [][C28_Step]_vars


(***************************************************************************)
(* C29: when the cheap-tier call of a document fails, the run ends Failed  *)
(* with that error and the expensive tier is never called for it: the      *)
(* expensive tier is called only when the cheap tier was not tried, or     *)
(* after the cheap tier replied with an insufficient record.               *)
(***************************************************************************)
C29_CheapFailureEndsRun ==
    \A r \in DOMAIN run :
        /\ run[r].err # NoError =>
              /\ run[r].pc = "failed"
              /\ run[r].err \in {throwAPIError(o) : o \in {x \in env.outcomes : ~x.ok}}
        /\ (run[r].pc = "failed" /\ run[r].tcalls > 0 /\ run[r].cheap = NoRecord) =>
              run[r].vcalls = 0
        /\ run[r].vcalls > 0 =>
              \/ run[r].tcalls = 0
              \/ run[r].cheap \in env.cheap /\ Insufficient(run[r].cheap)

\* the cheap tier was rate limited on all four attempts: Failed, no expensive call
C29_Witness ==
    \E r \in DOMAIN run :
        /\ run[r].pc = "failed"
        /\ run[r].tcalls = RETRY_MAX_ATTEMPTS
        /\ run[r].err.status = 429
        /\ run[r].vcalls = 0

\* the tier a run is calling or backing off in
TierOf(r) == IF run[r].pc \in {"textCall", "textDelay"} THEN "text" ELSE "vision"

(***************************************************************************)
(* C30: a run that is backing off between two attempts keeps its slot, and *)
(* while a run is backing off in the expensive tier (capacity 1) no other  *)
(* document's expensive-tier call starts.                                  *)
(***************************************************************************)
C30_Step ==
    \A r \in DOMAIN run :
        run[r].pc \in {"textDelay", "visionDelay"} =>
            /\ pool[TierOf(r)].running >= 1
            /\ \A i \in 1..Len(pool[TierOf(r)].queue) : pool[TierOf(r)].queue[i] # r
            /\ run[r].pc = "visionDelay" =>
                  \A q \in DOMAIN run \ {r} : run'[q].vcalls = run[q].vcalls

C30_SlotHeldDuringBackoff == [][C30_Step]_vars


\* the message msg is among the messages of list
Has(list, msg) == \E i \in 1..Len(list) : list[i] = msg

(***************************************************************************)
(* C22: the outcome is valid exactly when the error list is empty; the     *)
(* only errors are the missing company and the missing quarter; a record   *)
(* with company and quarter and all 7 financial fields null is valid and   *)
(* carries the no-financial-data warning; warnings never make it invalid.  *)
(***************************************************************************)
C22_ValidIffNoErrors ==
    vcount >= 1 =>
        /\ vres.valid <=> vres.errors = <<>>
        /\ \A i \in 1..Len(vres.errors) : vres.errors[i] \in {MissingCompany, MissingQuarter}
        /\ Has(vres.errors, MissingCompany) <=> vdata.company_name \in {VNull, VUndefined, Str(<<>>)}
        /\ Has(vres.errors, MissingQuarter) <=> vdata.quarter \in {VNull, VUndefined, Str(<<>>)}
        /\ (vdata.company_name.t = "string" /\ vdata.company_name.s # <<>>
                /\ vdata.quarter.t = "string" /\ vdata.quarter.s # <<>>) =>
              /\ vres.valid
              /\ (\A i \in 1..Len(FinancialFieldList) : vdata[FinancialFieldList[i]] = VNull)
                     => Has(vres.warnings, NoFinancialData)

\* company and quarter present, all 7 financial fields null: valid with the warning
C22_Witness ==
    /\ vcount >= 1
    /\ vdata.company_name = Str(<<"A", "c", "m", "e">>)
    /\ vdata.quarter = Str(<<"Q", "1">>)
    /\ \A i \in 1..Len(FinancialFieldList) : vdata[FinancialFieldList[i]] = VNull
    /\ vres.valid
    /\ vres.warnings = <<NoFinancialData>>
    /\ vres.errors = <<>>

\* the margin samples that, read as a fraction, lie outside [0, 1]:
\* 150%, -5%, 100.1% and 1.5
MarginsOutside ==
    {Str(<<"1", "5", "0", "%">>), Str(<<"-", "5", "%">>),
     Str(<<"1", "0", "0", ".", "1", "%">>), Str(<<"1", ".", "5">>)}

(***************************************************************************)
(* C23: the range warning is emitted exactly when the gross margin, with a *)
(* "%"-suffixed string normalized to a fraction, lies outside the closed   *)
(* interval [0, 1]: "150%" warns, "0%" and "100%" do not.                  *)
(***************************************************************************)
C23_MarginRangeWarning ==
    vcount >= 1 =>
        /\ Has(vres.warnings, MarginRange) <=> vdata.gross_margin \in MarginsOutside
        /\ vdata.gross_margin = Str(<<"1", "5", "0", "%">>) => Has(vres.warnings, MarginRange)
        /\ vdata.gross_margin \in {Str(<<"0", "%">>), Str(<<"1", "0", "0", "%">>)}
              => ~Has(vres.warnings, MarginRange)

\* "100%" validated without the range warning
C23_Witness ==
    /\ vcount >= 1
    /\ vdata.gross_margin = Str(<<"1", "0", "0", "%">>)
    /\ ~Has(vres.warnings, MarginRange)
    /\ vres.warnings # <<>>

\* the revenue and net income samples that are amounts, in millions
AmountsInMillions ==
    {<<Str(<<"$", "3", "B">>), 3000>>,
     <<Str(<<"$", "9", "0", "0", "M">>), 900>>,
     <<Str(<<"-", "$", "2", "M">>), -2>>,
     <<Str(<<"$", "1", ",", "2", "0", "0", "M">>), 1200>>,
     <<Str(<<"$", "5", "B">>), 5000>>,
     <<Str(<<"$", "1", "B">>), 1000>>,
     <<Str(<<"1", ".", "5", " ", "B", "i", "l", "l", "i", "o", "n">>), 1500>>,
     <<Str(<<"$", "2", ".", "9", "5", "B">>), 2950>>}

(***************************************************************************)
(* C24: the income-exceeds-revenue warning is emitted whenever the net     *)
(* income is greater than the revenue, both read with the currency symbol, *)
(* the thousands separators and the t/b/m suffix (any case) applied: net   *)
(* income "$5B" with revenue "$3B" warns, and so does "$1B" with "$900M".  *)
(***************************************************************************)
C24_IncomeExceedsRevenue ==
    vcount >= 1 =>
        /\ \A n, r \in AmountsInMillions :
              (vdata.net_income = n[1] /\ vdata.total_revenue = r[1] /\ n[2] > r[2])
                  => Has(vres.warnings, IncomeExceedsRevenue)
        /\ (vdata.net_income = Str(<<"$", "5", "B">>) /\ vdata.total_revenue = Str(<<"$", "3", "B">>))
              => Has(vres.warnings, IncomeExceedsRevenue)
        /\ (vdata.net_income = Str(<<"$", "1", "B">>) /\ vdata.total_revenue = Str(<<"$", "9", "0", "0", "M">>))
              => Has(vres.warnings, IncomeExceedsRevenue)

\* net income "$1B" against revenue "$900M": warned
C24_Witness ==
    /\ vcount >= 1
    /\ vdata.net_income = Str(<<"$", "1", "B">>)
    /\ vdata.total_revenue = Str(<<"$", "9", "0", "0", "M">>)
    /\ Has(vres.warnings, IncomeExceedsRevenue)

(***************************************************************************)
(* C25: validation is pure: a call leaves the record and every other state *)
(* unchanged, and validating the same record again gives the same errors   *)
(* and warnings.                                                           *)
(***************************************************************************)
C25_Step ==
    vcount' = vcount + 1 =>
        /\ vdata' = vdata
        /\ UNCHANGED exceptValidate
        /\ vcount >= 1 => vres' = vres

C26_ProseRoundTrip ==
    (parsed # NotParsed /\ reply.hasText) => parsed = JSONParse(reply.object)

(***************************************************************************)
(* Order and number of the oracle calls of one Strategy run.               *)
(***************************************************************************)
TextStates == {"textWait", "textCall", "textDelay"}

\* C31: in every Strategy run the cheap-tier calls come before the
\* expensive-tier calls, each tier is entered at most once (the cheap tier
\* only from the start, the expensive tier only before any of its calls),
\* the run makes at most RETRY_MAX_ATTEMPTS calls of each tier, and an ended
\* run makes no further call.
C31_Step ==
    \A r \in DOMAIN run :
        /\ run'[r].tcalls <= RETRY_MAX_ATTEMPTS
        /\ run'[r].vcalls <= RETRY_MAX_ATTEMPTS
        /\ run'[r].tcalls + run'[r].vcalls <= 2 * RETRY_MAX_ATTEMPTS
        /\ (run[r].vcalls > 0 \/ run[r].pc \in VisionStates)
              => run'[r].tcalls = run[r].tcalls /\ run'[r].pc \notin TextStates
        /\ (run[r].pc \notin TextStates /\ run'[r].pc \in TextStates)
              => run[r].pc = "extracting" /\ run[r].tcalls = 0 /\ run[r].vcalls = 0
        /\ (run[r].pc \notin VisionStates /\ run'[r].pc \in VisionStates)
              => run[r].pc \in {"extracting", "textDone"} /\ run[r].vcalls = 0
        /\ Ended(r) => run'[r] = run[r]

C31_CheapBeforeExpensiveBounded == [][C31_Step]_vars

\* a run that ended after the full number of calls of both tiers
C31_Witness ==
    \E r \in DOMAIN run :
        /\ Ended(r)
        /\ run[r].tcalls = RETRY_MAX_ATTEMPTS
        /\ run[r].vcalls = RETRY_MAX_ATTEMPTS

(***************************************************************************)
(* Termination of the runs and of the batch.                               *)
(***************************************************************************)
\* the runs that hold a slot of tier t: between this.running++ and the
\* finally block of Semaphore.run
HoldersOf(t) ==
    {r \in DOMAIN run :
        run[r].pc \in (IF t = "text" THEN {"textCall", "textDelay"}
                       ELSE {"visionCall", "visionDelay", "cooldown"})}

\* every oracle call and every timer returns, and the event loop runs every
\* scheduled continuation
SpecExtractFair ==
    /\ SpecExtract
    /\ \A r \in Runs :
          /\ WF_vars(r \in DOMAIN run /\ TextExtracted(r) /\ UNCHANGED <<env, exceptExtract>>)
          /\ WF_vars(r \in DOMAIN run
                        /\ (\E o \in env.outcomes, data \in env.cheap : TextCallSettles(r, o, data))
                        /\ UNCHANGED <<env, exceptExtract>>)
          /\ WF_vars(r \in DOMAIN run
                        /\ (\E o \in env.outcomes, data \in env.vision : VisionCallSettles(r, o, data))
                        /\ UNCHANGED <<env, exceptExtract>>)
          /\ WF_vars(r \in DOMAIN run /\ BackoffElapsed(r) /\ UNCHANGED <<env, exceptExtract>>)
          /\ WF_vars(r \in DOMAIN run /\ TextEvaluated(r) /\ UNCHANGED <<env, exceptExtract>>)
          /\ WF_vars(r \in DOMAIN run /\ CooldownElapsed(r) /\ UNCHANGED <<env, exceptExtract>>)
    /\ \A t \in Tiers : WF_vars(TierResume(t) /\ UNCHANGED <<env, exceptExtract>>)

\* the counter of each pool is the number of runs holding one of its slots:
\* a run that asks for the expensive slot has given the cheap one back
PoolCountsHolders ==
    \A t \in Tiers : pool[t].running = Cardinality(HoldersOf(t))

\* every started run reaches Accepted or Failed
EveryRunEnds == <>(\A r \in DOMAIN run : Ended(r))

\* every call of fn settles (one way or the other) and the route runs on
SpecBatchFair ==
    /\ SpecBatch
    /\ WF_vars(RouteNoFiles /\ UNCHANGED exceptBatch)
    /\ WF_vars(StartBatch /\ UNCHANGED exceptBatch)
    /\ WF_vars(Respond /\ UNCHANGED exceptBatch)
    /\ \A w \in 1..DEFAULT_CONCURRENCY :
          WF_vars((FnResolve(w) \/ \E e \in FnErrors : FnReject(w, e)) /\ UNCHANGED exceptBatch)

\* C32: no run holds a cheap and an expensive slot together, so the pools
\* do not deadlock: when every call and timer returns, the run of every
\* document of the batch eventually settles (Accepted or Failed).
C32_EveryDocumentEnds ==
    <>(\A i \in 0..(Len(items) - 1) : Settled(i) # {})

(***************************************************************************)
(* Waiters of a Semaphore.                                                 *)
(***************************************************************************)
\* a pool with MaxFairCallers callers
PoolFreshFair ==
    /\ capacity \in 1..MaxCapacity
    /\ running = 0
    /\ queue = <<>>
    /\ jobs = <<>>
    /\ cst = [c \in 1..MaxFairCallers |-> "idle"]
    /\ entered = <<>>
    /\ started = <<>>
    /\ releases = 0
    /\ relAtEnter = [c \in 1..MaxFairCallers |-> [releases |-> 0, holders |-> 0]]

InitPoolFair ==
    BatchIdle /\ PoolFreshFair /\ RetryIdle /\ ExtractIdle /\ RateIdle /\ ValidateIdle /\ ParseIdle

\* every holder's call settles and the event loop runs every scheduled
\* continuation; nothing obliges a caller to call run()
SpecPoolFair ==
    /\ InitPoolFair
    /\ [][NextPool]_vars
    /\ \A c \in 1..MaxFairCallers :
          WF_vars((Finish(c, TRUE) \/ Finish(c, FALSE)) /\ UNCHANGED exceptPool)
    /\ WF_vars(Resume /\ UNCHANGED exceptPool)

\* the callers parked in the queue
Parked == {c \in DOMAIN cst : cst[c] = "waiting"}

\* a step wakes a waiter only in a finally block, and a finally block that
\* finds a waiter wakes the head of the queue, only it, and removes it
C33_Step ==
    IF releases' = releases + 1 /\ queue # <<>>
    THEN /\ queue' = Tail(queue)
         /\ jobs' = Append(jobs, Head(queue))
         /\ Parked \ {c \in DOMAIN cst : cst'[c] = "waiting"} = {Head(queue)}
         /\ cst'[Head(queue)] = "woken"
    ELSE /\ Parked \subseteq {c \in DOMAIN cst : cst'[c] = "waiting"}
         /\ Len(jobs') <= Len(jobs)

\* C33: no waiter is stranded: when every holder's call ends, a caller
\* parked in run() is eventually woken and starts its call, and every
\* release that finds waiters wakes exactly the first and dequeues it.
C33_NoWaiterStranded ==
    /\ [][C33_Step]_vars
    /\ \A c \in 1..MaxFairCallers : (cst[c] = "waiting") ~> (cst[c] = "woken")
    /\ \A c \in 1..MaxFairCallers : (cst[c] = "woken") ~> (cst[c] = "running")

\* a caller that found the pool full when it called run() is in its call
C33_Witness ==
    \E c \in DOMAIN cst :
        /\ cst[c] = "running"
        /\ relAtEnter[c].holders >= capacity
        /\ \E i \in 1..Len(entered) : entered[i] = c

(***************************************************************************)
(* The two module-level pools under runs of several batches.               *)
(***************************************************************************)
\* the runs whose oracle call of tier t is in flight
CallsInFlight(t) ==
    {r \in DOMAIN run : run[r].pc = (IF t = "text" THEN "textCall" ELSE "visionCall")}

\* a step changes the counter, queue and continuations of one pool at most
PoolsIndependent ==
    [][\A t, u \in Tiers : (pool'[t] # pool[t] /\ pool'[u] # pool[u]) => t = u]_vars

\* C34: the pools are shared by every run of every batch in the process:
\* whatever the batches, at most TEXT_CONCURRENCY cheap-tier calls and at
\* most VISION_CONCURRENCY expensive-tier calls are in flight.
C34_PoolsBoundAllBatches ==
    \A t \in Tiers : Cardinality(CallsInFlight(t)) <= Concurrency(t)

(***************************************************************************)
(* What a check records and returns.                                       *)
(***************************************************************************)
\* the step is a call of checkRateLimit
CheckStep == Len(log') = Len(log) + 1

\* C35: with a limit of at least 1, a denied check leaves the timestamps of
\* its key (and of every key) as they were, so denied checks do not extend
\* the lockout, and no key ever has more timestamps stored than the limit.
C35_Step ==
    MAX_REQUESTS >= 1 =>
        /\ \A k \in DOMAIN store' : Len(store'[k]) <= MAX_REQUESTS
        /\ (CheckStep /\ ~log'[Len(log')].result.allowed) =>
              /\ store' = store
              /\ Stamps(store', log'[Len(log')].key) = Stamps(store, log'[Len(log')].key)

C35_DeniedRecordsNothing == [][C35_Step]_vars

\* a key denied twice in a row while its list is full
C35_Witness ==
    /\ MAX_REQUESTS >= 1
    /\ \E k \in Keys :
          LET s == KeyLog(k)
          IN  /\ Len(s) >= 3
              /\ ~s[Len(s)].result.allowed
              /\ ~s[Len(s) - 1].result.allowed
              /\ s[Len(s)].at > s[Len(s) - 1].at
              /\ Len(Stamps(store, k)) = MAX_REQUESTS

\* what a check returns: a denial carries the time until the oldest counted
\* timestamp leaves the window, an admission carries null and the quota left
C36_Step ==
    (MAX_REQUESTS >= 1 /\ CheckStep) =>
        LET e == log'[Len(log')]
            stamps == Stamps(store', e.key)
        IN  IF e.result.allowed
            THEN /\ e.result.retryAfterMs = Null
                 /\ e.result.remaining = MAX_REQUESTS - Len(stamps)
                 /\ e.result.remaining >= 0
            ELSE /\ e.result.retryAfterMs.kind = "number"
                 /\ e.result.retryAfterMs.val > 0
                 /\ e.result.retryAfterMs.val <= WINDOW_MS
                 /\ stamps # <<>>
                 /\ e.result.retryAfterMs.val = (stamps[1] + WINDOW_MS) - e.at

\* the first check of a key made retryAfterMs after a denial is allowed
RetryHonoured ==
    MAX_REQUESTS >= 1 =>
        \A k \in Keys :
            LET s == KeyLog(k)
            IN  \A i, j \in 1..Len(s) :
                    (/\ i < j
                     /\ ~s[i].result.allowed
                     /\ s[j].at = s[i].at + s[i].result.retryAfterMs.val
                     /\ \A m \in (i + 1)..(j - 1) : s[m].at < s[j].at)
                        => s[j].result.allowed

\* C36: with a limit of at least 1, a denied check returns a retryAfterMs
\* in (0, window] that is the time until the oldest counted timestamp
\* leaves the window, and the key's check made that much later is allowed;
\* an allowed check returns null and the non-negative quota that is left.
C36_RetryAfterExact == [][C36_Step]_vars /\ []RetryHonoured

\* a key denied with less than a window to wait and admitted exactly then
C36_Witness ==
    /\ MAX_REQUESTS >= 1
    /\ \E k \in Keys :
          LET s == KeyLog(k)
          IN  \E i \in 1..Len(s) :
                 /\ i < Len(s)
                 /\ ~s[i].result.allowed
                 /\ s[i].result.retryAfterMs.val < WINDOW_MS
                 /\ s[Len(s)].at = s[i].at + s[i].result.retryAfterMs.val
                 /\ s[Len(s)].result.allowed
                 /\ s[Len(s)].result.remaining = 0

(***************************************************************************)
(* Keys do not interfere, and neither does the sweep.                      *)
(***************************************************************************)
\* the instants of the allowed checks of key k among the first n entries of
\* the log that are inside the window at the instant at
OwnAdmissions(k, n, at) ==
    SelectSeq(SubSeq(log, 1, n),
              LAMBDA e : e.key = k /\ e.result.allowed /\ at - e.at < WINDOW_MS)

\* the RateLimitResult computed from the key's own admissions and the
\* clock alone, without the store
ResultFromHistory(k, n, at) ==
    LET own == OwnAdmissions(k, n, at)
    IN  IF Len(own) >= MAX_REQUESTS
        THEN [allowed |-> FALSE, remaining |-> 0,
              retryAfterMs |-> IF own = <<>> THEN NaN
                               ELSE Num(WINDOW_MS - (at - own[1].at))]
        ELSE [allowed |-> TRUE, remaining |-> MAX_REQUESTS - (Len(own) + 1),
              retryAfterMs |-> Null]

\* a check leaves the entry of every other key as it was, and what it
\* returns follows from its own key's earlier allowed checks and the clock
C37_Step ==
    CheckStep =>
        LET e == log'[Len(log')]
        IN  /\ \A k \in (DOMAIN store \cup DOMAIN store') \ {e.key} :
                  /\ k \in DOMAIN store <=> k \in DOMAIN store'
                  /\ Stamps(store', k) = Stamps(store, k)
            /\ e.result.allowed = ResultFromHistory(e.key, Len(log), e.at).allowed

\* C37: rate limiting is per client key: a check of one key never changes
\* the stored timestamps of another key, and whether it is allowed depends
\* only on that key's own earlier allowed checks and the clock.
C37_PerKey == [][C37_Step]_vars

\* at one instant a key at its limit is denied and another key is allowed
C37_Witness ==
    \E i, j \in 1..Len(log) :
        /\ log[i].key # log[j].key
        /\ log[i].at = log[j].at
        /\ i < j
        /\ ~log[i].result.allowed
        /\ log[j].result.allowed
        /\ MAX_REQUESTS >= 1

\* C38: the sweep is transparent to admission: wherever cleanup callbacks
\* run between the checks, every check returns the allowed, remaining and
\* retryAfterMs that follow from the sequence of checks alone, which are
\* the values it returns when the callback never runs.
C38_Step ==
    CheckStep =>
        LET e == log'[Len(log')]
        IN  e.result = ResultFromHistory(e.key, Len(log), e.at)

C38_SweepTransparent == [][C38_Step]_vars

\* a key admitted, its timestamp expired and removed by the cleanup
\* callback, and the key checked again after the callback ran
C38_Witness ==
    /\ MAX_REQUESTS >= 1
    /\ cleanupTimer.armed
    /\ \E i, j \in 1..Len(log) :
          /\ i < j
          /\ log[i].key = log[j].key
          /\ log[i].result.allowed
          /\ log[i].at + WINDOW_MS <= cleanupTimer.due - CLEANUP_INTERVAL
          /\ cleanupTimer.due - CLEANUP_INTERVAL >= log[1].at + CLEANUP_INTERVAL
          /\ log[j].at > cleanupTimer.due - CLEANUP_INTERVAL
          /\ log[j].result.allowed

(***************************************************************************)
(* Order of the session check and the rate-limit check in proxy.           *)
(***************************************************************************)
\* C39: with authentication enabled, a request to /api/extract without a
\* valid session is answered 401 before checkRateLimit is called: the store,
\* the log of checks and the cleanup timer stay as they were; and every
\* step that is a checkRateLimit call is a request with a valid session.
C39_Step ==
    authEnabled =>
        /\ \A h \in Headers :
              Request("/api/extract", h, FALSE) =>
                  /\ last' = [status |-> 401, checked |-> FALSE, next |-> FALSE]
                  /\ store' = store
                  /\ log' = log
                  /\ cleanupTimer' = cleanupTimer
        /\ CheckStep =>
              /\ \E h \in Headers : Request("/api/extract", h, TRUE)
              /\ last'.checked
              /\ last'.status # 401

C39_SessionBeforeLimit == [][C39_Step]_vars

\* a 401 answered while a key still has quota left and checks were made
C39_Witness ==
    /\ authEnabled
    /\ last = [status |-> 401, checked |-> FALSE, next |-> FALSE]
    /\ log # <<>>
    /\ log[Len(log)].result.allowed
    /\ \A k \in DOMAIN store : Len(store[k]) < MAX_REQUESTS

=============================================================================
